---- MODULE Spec2Model ----
(***************************************************************************)
(* A model of the popcorn-native game simulation (src/game): the           *)
(* GameEngine state machine, the spawner, the item physics, the            *)
(* CollisionSystem and the score/combo accounting.                         *)
(*                                                                         *)
(* Units.  The C++ code computes in float.  The model computes in exact    *)
(* integer arithmetic over scaled units:                                   *)
(*   time      1/24 s   (Sec(1) = 24; the spawn intervals 1/4, 1/6 and     *)
(*                       1/8 s are 6, 4 and 3 units)                       *)
(*   length    1/2 px   (Px(1) = 2; item radii such as 32.5 px are whole)  *)
(*   speed     1/2 px per second                                           *)
(* Every dt of DtSet is a multiple of 1/8 s and every speed the spawner    *)
(* produces from SpeedVariationSet is a multiple of 4 px/s, which makes    *)
(* speed * dt a whole number of half pixels.                               *)
(*                                                                         *)
(* Fields that only feed the renderer (rotation, rotationSpeed, color,     *)
(* emoji, captured, captureAlpha) and the console output are not modelled. *)
(***************************************************************************)
EXTENDS Integers, Sequences, FiniteSets, TLC

VARIABLES
    m_state,            \* GameEngine::m_state
    m_phase,            \* GameEngine::m_phase
    m_p1Score,          \* GameEngine::m_p1Score
    m_p2Score,          \* GameEngine::m_p2Score
    m_p1Combo,          \* GameEngine::m_p1Combo
    m_p2Combo,          \* GameEngine::m_p2Combo
    m_p1ComboTimer,     \* GameEngine::m_p1ComboTimer   (1/24 s)
    m_p2ComboTimer,     \* GameEngine::m_p2ComboTimer   (1/24 s)
    m_gameTime,         \* GameEngine::m_gameTime       (1/24 s)
    m_remainingTime,    \* GameEngine::m_remainingTime  (1/24 s)
    m_spawnTimer,       \* GameEngine::m_spawnTimer     (1/24 s)
    m_fallingItems,     \* GameEngine::m_fallingItems   (sequence of items)
    m_detectedPersons,  \* GameEngine::m_detectedPersons
    m_nextItemId,       \* GameEngine::m_nextItemId
    call,               \* the most recent call of the public interface
    collisions,         \* the CollisionResults of the most recent update call
    collidedItems,      \* m_fallingItems as detectCollisions left it in that call
    lastCapture,        \* per person id, the game time of that person's latest
                        \* positive capture in the current game, or -1
    spawnedIds,         \* the ids that spawnItem has given to items: .life since
                        \* the engine was constructed, .game since the latest
                        \* reset()
    capturedItems,      \* the items that gave a CollisionResult in an update
                        \* call since the latest reset(), in that order
    camera,             \* the fields of CameraCapture
    capture,            \* the thread running CameraCapture::captureThread
    consumer,           \* the thread that calls initialize, getFrame, shutdown
    heap,               \* the pixel buffers that the cv::Mat objects refer to
    camLog,             \* the reads of the device and the frames published
    app,                \* the fields of Application and the position of main
    poseDetector,       \* the fields of PoseDetector
    gestureDetector,    \* the fields of GestureDetector
    env,                \* the model files on disk and the build flag
    detection,          \* the most recent detect call: its frame and result
    particleSystem,     \* the fields of ParticleSystem
    renderer,           \* the screen shake and the flash of Renderer
    effect              \* the most recent call of ParticleSystem or Renderer

vars == << m_state, m_phase, m_p1Score, m_p2Score, m_p1Combo, m_p2Combo,
           m_p1ComboTimer, m_p2ComboTimer, m_gameTime, m_remainingTime,
           m_spawnTimer, m_fallingItems, m_detectedPersons, m_nextItemId,
           call, collisions, collidedItems, lastCapture, spawnedIds,
           capturedItems,
           camera, capture, consumer, heap, camLog,
           app, poseDetector, gestureDetector, env, detection,
           particleSystem, renderer, effect >>

\* the variables of the GameEngine and of its calls
gameVars == << m_state, m_phase, m_p1Score, m_p2Score, m_p1Combo, m_p2Combo,
               m_p1ComboTimer, m_p2ComboTimer, m_gameTime, m_remainingTime,
               m_spawnTimer, m_fallingItems, m_detectedPersons, m_nextItemId,
               call, collisions, collidedItems, lastCapture, spawnedIds,
               capturedItems >>

\* the variables outside the GameEngine
outsideVars == << camera, capture, consumer, heap, camLog,
                  app, poseDetector, gestureDetector, env, detection,
                  particleSystem, renderer, effect >>

\* the variables of the Application, of the detectors and of their calls
appVars == << app, poseDetector, gestureDetector, env, detection >>

\* the variables of the ParticleSystem, of the Renderer and of their calls
effectVars == << particleSystem, renderer, effect >>

engineVars == << m_state, m_phase, m_p1Score, m_p2Score, m_p1Combo, m_p2Combo,
                 m_p1ComboTimer, m_p2ComboTimer, m_gameTime, m_remainingTime,
                 m_spawnTimer, m_fallingItems, m_nextItemId >>

----------------------------------------------------------------------------
(* Units *)

Sec(s) == s * 24
Px(p) == p * 2

----------------------------------------------------------------------------
(* Bounds of the model *)

\* items one game may spawn (m_nextItemId is capped in the guard of update)
MaxItemId == 2

\* the frame times offered to update: 0, 1/8 s, 15 s and 45 s
DtSet == {0, 3, Sec(15), Sec(45)}

\* samples of xDist(gen), in tenths
XDistSet == {5}

\* samples of typeDist(gen): the last Popcorn roll, the first Ticket roll, a Bomb roll
TypeRollSet == {39, 40, 99}

\* samples of speedVariation(gen), in tenths
SpeedVariationSet == {10}

----------------------------------------------------------------------------
(* GameConfig.h *)

GameStates == {"Calibrating", "Countdown", "Playing", "Paused", "GameOver"}
GamePhases == {"Warmup", "Rush", "Finale"}
ItemTypes == <<"Popcorn", "Ticket", "Cola", "Filmroll", "Bomb">>

\* score, size (px) and speedMultiplier (tenths) of ITEM_CONFIGS
ITEM_CONFIGS ==
    [ Popcorn  |-> [score |-> 10,  size |-> 65, speedMultiplier |-> 8],
      Ticket   |-> [score |-> 25,  size |-> 70, speedMultiplier |-> 10],
      Cola     |-> [score |-> 50,  size |-> 75, speedMultiplier |-> 12],
      Filmroll |-> [score |-> 100, size |-> 85, speedMultiplier |-> 12],
      Bomb     |-> [score |-> 0 - 30, size |-> 70, speedMultiplier |-> 10] ]

ITEM_SPAWN_WEIGHTS ==
    [ Popcorn |-> 40, Ticket |-> 22, Cola |-> 15, Filmroll |-> 15, Bomb |-> 8 ]

\* fallSpeed (px/s) and spawnRate (items/s) of PHASE_CONFIGS
PHASE_CONFIGS ==
    [ Warmup |-> [fallSpeed |-> 400, spawnRate |-> 4],
      Rush   |-> [fallSpeed |-> 620, spawnRate |-> 6],
      Finale |-> [fallSpeed |-> 880, spawnRate |-> 8] ]

GAME_DURATION == Sec(45)
COMBO_TIMEOUT == Sec(2)
PHASE_WARMUP_END == Sec(15)
PHASE_RUSH_END == Sec(30)
PERFECT_CAPTURE_RADIUS == Px(30)
PERFECT_CAPTURE_BONUS == 5

\* ScoreConfig::getComboMultiplier, in tenths
getComboMultiplier(combo) ==
    IF combo >= 20 THEN 30
    ELSE IF combo >= 10 THEN 20
    ELSE IF combo >= 5 THEN 15
    ELSE IF combo >= 2 THEN 12
    ELSE 10

\* the size of the game area handed to GameEngine::initialize by main
m_width == Px(1920)
m_height == Px(1080)

\* CollisionSystem::m_handRadius as GameEngine::initialize sets it
m_handRadius == Px(50)

----------------------------------------------------------------------------
(* FallingItem.h *)

\* FallingItem::getScore
getScore(item) == ITEM_CONFIGS[item.type].score

----------------------------------------------------------------------------
(* CollisionSystem.cpp *)

\* CollisionSystem::distanceSquared
distanceSquared(x1, y1, x2, y2) ==
    LET dx == x2 - x1
        dy == y2 - y1
    IN  dx * dx + dy * dy

\* checkHandItemCollision with the test distSq < collisionRadiusSq
checkHandItemCollision_strict(hand, item) ==
    LET collisionRadius == m_handRadius + item.size \div 2
        collisionRadiusSq == collisionRadius * collisionRadius
        distSq == distanceSquared(hand.x, hand.y, item.x, item.y)
    IN  distSq < collisionRadiusSq

\* CollisionSystem::checkHandItemCollision
checkHandItemCollision(hand, item) ==
    LET collisionRadius == m_handRadius + item.size \div 2
        collisionRadiusSq == collisionRadius * collisionRadius
        distSq == distanceSquared(hand.x, hand.y, item.x, item.y)
    IN  distSq <= collisionRadiusSq

\* one pass of the body of the person loop: which wrist of the person, if any,
\* collides with the item (the left wrist is tested first)
HandHit(person, item) ==
    IF person.leftHand.valid /\ checkHandItemCollision(person.leftHand, item)
    THEN "left"
    ELSE IF person.rightHand.valid /\ checkHandItemCollision(person.rightHand, item)
    THEN "right"
    ELSE "none"

\* a person loop that goes on after a hit: the index of the last person of
\* the list, from index p on, that collides with the item, or 0
RECURSIVE FirstHit_lastWins(_, _, _)
FirstHit_lastWins(p, persons, item) ==
    IF p > Len(persons) THEN 0
    ELSE LET rest == FirstHit_lastWins(p + 1, persons, item)
         IN  IF rest # 0 THEN rest
             ELSE IF HandHit(persons[p], item) # "none" THEN p ELSE 0

\* the person loop of detectCollisions: the index of the first person of the
\* list, from index p on, that collides with the item, or 0
RECURSIVE FirstHit(_, _, _)
FirstHit(p, persons, item) ==
    IF p > Len(persons) THEN 0
    ELSE IF HandHit(persons[p], item) # "none" THEN p
    ELSE FirstHit(p + 1, persons, item)

\* detectCollisions without the skip of inactive items (line 15 dropped)
RECURSIVE DetectFrom_ignoresActive(_, _, _)
DetectFrom_ignoresActive(i, persons, acc) ==
    IF i > Len(acc.items) THEN acc
    ELSE LET item == acc.items[i]
             p == FirstHit(1, persons, item)
         IN  IF p = 0
             THEN DetectFrom_ignoresActive(i + 1, persons, acc)
             ELSE DetectFrom_ignoresActive(i + 1, persons,
                    [ items |-> [acc.items EXCEPT ![i].active = FALSE],
                      results |-> Append(acc.results,
                          [ itemId |-> item.id,
                            personId |-> persons[p].id,
                            isLeftHand |-> (HandHit(persons[p], item) = "left"),
                            scoreChange |-> getScore(item) ]) ])

\* the item loop of detectCollisions from index i on; acc holds the items as
\* modified so far and the results pushed so far
RECURSIVE DetectFrom(_, _, _)
DetectFrom(i, persons, acc) ==
    IF i > Len(acc.items) THEN acc
    ELSE LET item == acc.items[i]
             p == FirstHit(1, persons, item)
         IN  IF ~item.active \/ p = 0
             THEN DetectFrom(i + 1, persons, acc)
             ELSE DetectFrom(i + 1, persons,
                    [ items |-> [acc.items EXCEPT ![i].active = FALSE],
                      results |-> Append(acc.results,
                          [ itemId |-> item.id,
                            personId |-> persons[p].id,
                            isLeftHand |-> (HandHit(persons[p], item) = "left"),
                            scoreChange |-> getScore(item) ]) ])

\* CollisionSystem::detectCollisions: the items as it leaves them and its results
detectCollisions(items, persons) ==
    DetectFrom(1, persons, [items |-> items, results |-> << >>])

----------------------------------------------------------------------------
(* GameEngine.cpp: helpers of update *)

\* GameEngine::updatePhase
updatePhase(gameTime) ==
    IF gameTime < PHASE_WARMUP_END THEN "Warmup"
    ELSE IF gameTime < PHASE_RUSH_END THEN "Rush"
    ELSE "Finale"

\* the weighted choice of spawnItem: walk ITEM_SPAWN_WEIGHTS in key order
RECURSIVE PickType(_, _, _)
PickType(i, cumulative, typeRoll) ==
    IF i > Len(ItemTypes) THEN "Popcorn"
    ELSE LET c == cumulative + ITEM_SPAWN_WEIGHTS[ItemTypes[i]]
         IN  IF typeRoll < c THEN ItemTypes[i]
             ELSE PickType(i + 1, c, typeRoll)

\* spawnItem with item.id = 0 in place of m_nextItemId++
spawnItem_idZero(nextItemId, phase, rnd) ==
    LET type == PickType(1, 0, rnd.typeRoll)
        baseSpeed == Px(PHASE_CONFIGS[phase].fallSpeed)
        speedMult == ITEM_CONFIGS[type].speedMultiplier
    IN  [ id |-> 0,
          type |-> type,
          x |-> (rnd.xDist * m_width) \div 10,
          y |-> 0 - Px(50),
          size |-> Px(ITEM_CONFIGS[type].size),
          speed |-> (baseSpeed * speedMult * rnd.speedVariation) \div 100,
          active |-> TRUE ]

\* GameEngine::spawnItem: the item pushed for the random draws rnd
spawnItem(nextItemId, phase, rnd) ==
    LET type == PickType(1, 0, rnd.typeRoll)
        baseSpeed == Px(PHASE_CONFIGS[phase].fallSpeed)
        speedMult == ITEM_CONFIGS[type].speedMultiplier
    IN  [ id |-> nextItemId,
          type |-> type,
          x |-> (rnd.xDist * m_width) \div 10,
          y |-> 0 - Px(50),
          size |-> Px(ITEM_CONFIGS[type].size),
          speed |-> (baseSpeed * speedMult * rnd.speedVariation) \div 100,
          active |-> TRUE ]

\* GameEngine::updateItems
updateItems(items, deltaTime) ==
    [ i \in DOMAIN items |->
        IF ~items[i].active THEN items[i]
        ELSE [items[i] EXCEPT !.y = @ + (items[i].speed * deltaTime) \div Sec(1)] ]

\* removeOffscreenItems with the test item.y >= m_height + 100
removeOffscreenItems_atEdge(items) ==
    LET Keep(item) == ~(~item.active \/ item.y >= m_height + Px(100))
    IN  SelectSeq(items, Keep)

\* removeOffscreenItems without the test !item.active
removeOffscreenItems_keepsInactive(items) ==
    LET Keep(item) == ~(item.y > m_height + Px(100))
    IN  SelectSeq(items, Keep)

\* GameEngine::removeOffscreenItems
removeOffscreenItems(items) ==
    LET Keep(item) == ~(~item.active \/ item.y > m_height + Px(100))
    IN  SelectSeq(items, Keep)

\* the player a collision is credited to (line 92: always player 1)
playerId(collision) == 0

\* the loop over the collisions in update, from index i on; s holds the scores,
\* combo counts and combo timers of both players
RECURSIVE ApplyCollisions(_, _, _)
ApplyCollisions(i, results, s) ==
    IF i > Len(results) THEN s
    ELSE LET collision == results[i]
             positive == collision.scoreChange > 0
         IN  IF playerId(collision) = 0
             THEN ApplyCollisions(i + 1, results,
                    [s EXCEPT !.p1Score = @ + collision.scoreChange,
                              !.p1Combo = IF positive THEN @ + 1 ELSE @,
                              !.p1ComboTimer = IF positive THEN COMBO_TIMEOUT ELSE @])
             ELSE ApplyCollisions(i + 1, results,
                    [s EXCEPT !.p2Score = @ + collision.scoreChange,
                              !.p2Combo = IF positive THEN @ + 1 ELSE @,
                              !.p2ComboTimer = IF positive THEN COMBO_TIMEOUT ELSE @])

----------------------------------------------------------------------------
(* GameEngine.cpp: the operations, as functions of the engine's fields *)

\* the fields of the GameEngine object that the operations assign
Engine ==
    [ state |-> m_state, phase |-> m_phase,
      p1Score |-> m_p1Score, p2Score |-> m_p2Score,
      p1Combo |-> m_p1Combo, p2Combo |-> m_p2Combo,
      p1ComboTimer |-> m_p1ComboTimer, p2ComboTimer |-> m_p2ComboTimer,
      gameTime |-> m_gameTime, remainingTime |-> m_remainingTime,
      spawnTimer |-> m_spawnTimer, fallingItems |-> m_fallingItems,
      nextItemId |-> m_nextItemId ]

\* the assignment of the fields
SetEngine(s) ==
    /\ m_state' = s.state
    /\ m_phase' = s.phase
    /\ m_p1Score' = s.p1Score
    /\ m_p2Score' = s.p2Score
    /\ m_p1Combo' = s.p1Combo
    /\ m_p2Combo' = s.p2Combo
    /\ m_p1ComboTimer' = s.p1ComboTimer
    /\ m_p2ComboTimer' = s.p2ComboTimer
    /\ m_gameTime' = s.gameTime
    /\ m_remainingTime' = s.remainingTime
    /\ m_spawnTimer' = s.spawnTimer
    /\ m_fallingItems' = s.fallingItems
    /\ m_nextItemId' = s.nextItemId

\* reset without m_fallingItems.clear()
reset_keepsItems(s) ==
    [ s EXCEPT !.p1Score = 0, !.p2Score = 0,
               !.p1Combo = 0, !.p2Combo = 0,
               !.p1ComboTimer = 0, !.p2ComboTimer = 0,
               !.gameTime = 0,
               !.remainingTime = GAME_DURATION,
               !.phase = "Warmup",
               !.spawnTimer = 0,
               !.nextItemId = 0,
               !.state = "Calibrating" ]

\* reset without m_spawnTimer = 0 (line 153 dropped)
reset_keepsSpawnTimer(s) ==
    [ s EXCEPT !.p1Score = 0, !.p2Score = 0,
               !.p1Combo = 0, !.p2Combo = 0,
               !.p1ComboTimer = 0, !.p2ComboTimer = 0,
               !.gameTime = 0,
               !.remainingTime = GAME_DURATION,
               !.phase = "Warmup",
               !.fallingItems = << >>,
               !.nextItemId = 0,
               !.state = "Calibrating" ]

\* GameEngine::reset
reset(s) ==
    [ s EXCEPT !.p1Score = 0, !.p2Score = 0,
               !.p1Combo = 0, !.p2Combo = 0,
               !.p1ComboTimer = 0, !.p2ComboTimer = 0,
               !.gameTime = 0,
               !.remainingTime = GAME_DURATION,
               !.phase = "Warmup",
               !.spawnTimer = 0,
               !.fallingItems = << >>,
               !.nextItemId = 0,
               !.state = "Calibrating" ]

\* GameEngine::startGame
startGame(s) ==
    IF s.state = "Calibrating" \/ s.state = "GameOver"
    THEN [reset(s) EXCEPT !.state = "Playing"]
    ELSE s

\* togglePause that pauses from every state but Paused
togglePause_fromAny(s) ==
    IF s.state = "Paused" THEN [s EXCEPT !.state = "Playing"]
    ELSE [s EXCEPT !.state = "Paused"]

\* GameEngine::togglePause
togglePause(s) ==
    IF s.state = "Playing" THEN [s EXCEPT !.state = "Paused"]
    ELSE IF s.state = "Paused" THEN [s EXCEPT !.state = "Playing"]
    ELSE s

\* GestureResult::anyOkGesture
anyOkGesture(gesture) ==
    gesture.leftHand.isOkGesture \/ gesture.rightHand.isOkGesture

\* updateCalibrating without the test for a detected person
updateCalibrating_anyGesture(s, persons, gesture) ==
    IF anyOkGesture(gesture) THEN startGame(s) ELSE s

\* update, case Calibrating (lines 29-45)
updateCalibrating(s, persons, gesture) ==
    IF persons # << >>
    THEN IF anyOkGesture(gesture) THEN startGame(s) ELSE s
    ELSE s

\* advanceTime with the test m_remainingTime < 0
advanceTime_strict(s, deltaTime) ==
    LET t == [s EXCEPT !.gameTime = @ + deltaTime,
                       !.remainingTime = @ - deltaTime]
    IN  IF t.remainingTime < 0
        THEN [t EXCEPT !.remainingTime = 0, !.state = "GameOver"]
        ELSE t

\* advanceTime without m_remainingTime = 0 (line 57 dropped)
advanceTime_noClamp(s, deltaTime) ==
    LET t == [s EXCEPT !.gameTime = @ + deltaTime,
                       !.remainingTime = @ - deltaTime]
    IN  IF t.remainingTime <= 0
        THEN [t EXCEPT !.state = "GameOver"]
        ELSE t

\* advanceTime with a game time that runs twice as fast as the countdown
advanceTime_doubleGameTime(s, deltaTime) ==
    LET t == [s EXCEPT !.gameTime = @ + 2 * deltaTime,
                       !.remainingTime = @ - deltaTime]
    IN  IF t.remainingTime <= 0
        THEN [t EXCEPT !.remainingTime = 0, !.state = "GameOver"]
        ELSE t

\* update, case Playing: the time step and the end of the game (lines 53-60)
advanceTime(s, deltaTime) ==
    LET t == [s EXCEPT !.gameTime = @ + deltaTime,
                       !.remainingTime = @ - deltaTime]
    IN  IF t.remainingTime <= 0
        THEN [t EXCEPT !.remainingTime = 0, !.state = "GameOver"]
        ELSE t

\* the combo timers without the two resets of lines 68-69
updateComboTimers_noReset(s, deltaTime) ==
    [s EXCEPT !.p1ComboTimer = @ - deltaTime,
              !.p2ComboTimer = @ - deltaTime]

\* update, case Playing: the combo timers (lines 66-69)
updateComboTimers(s, deltaTime) ==
    LET t == [s EXCEPT !.p1ComboTimer = @ - deltaTime,
                       !.p2ComboTimer = @ - deltaTime]
    IN  [t EXCEPT !.p1Combo = IF t.p1ComboTimer <= 0 THEN 0 ELSE @,
                  !.p2Combo = IF t.p2ComboTimer <= 0 THEN 0 ELSE @]

\* 1.0f / rate of the phase, in 1/24 s
spawnInterval(phase) == Sec(1) \div PHASE_CONFIGS[phase].spawnRate

\* the spawner with item.id = m_nextItemId, without the increment of line 180
updateSpawn_sameId(s, deltaTime, rnd) ==
    LET t == [s EXCEPT !.spawnTimer = @ + deltaTime]
    IN  IF t.spawnTimer >= spawnInterval(t.phase)
        THEN [t EXCEPT !.fallingItems = Append(@, spawnItem(t.nextItemId, t.phase, rnd)),
                       !.spawnTimer = 0]
        ELSE t

\* update, case Playing: the spawner (lines 72-81)
updateSpawn(s, deltaTime, rnd) ==
    LET t == [s EXCEPT !.spawnTimer = @ + deltaTime]
    IN  IF t.spawnTimer >= spawnInterval(t.phase)
        THEN [t EXCEPT !.fallingItems = Append(@, spawnItem(t.nextItemId, t.phase, rnd)),
                       !.nextItemId = @ + 1,
                       !.spawnTimer = 0]
        ELSE t

\* updatePlaying with updatePhase() moved from line 63 to the end of the case
updatePlaying_phaseAfterSpawn(s, deltaTime, persons, rnd) ==
    LET s1 == advanceTime(s, deltaTime)
    IN  IF s1.state = "GameOver"
        THEN [engine |-> s1, results |-> << >>, collided |-> << >>]
        ELSE LET s3 == updateComboTimers(s1, deltaTime)
                 s4 == updateSpawn(s3, deltaTime, rnd)
                 s5 == [s4 EXCEPT !.fallingItems = updateItems(@, deltaTime)]
                 det == IF persons # << >>
                        THEN detectCollisions(s5.fallingItems, persons)
                        ELSE [items |-> s5.fallingItems, results |-> << >>]
                 s6 == ApplyCollisions(1, det.results,
                                       [s5 EXCEPT !.fallingItems = det.items])
                 s7 == [s6 EXCEPT !.fallingItems = removeOffscreenItems(@),
                                  !.phase = updatePhase(s1.gameTime)]
             IN  [engine |-> s7, results |-> det.results, collided |-> det.items]

\* update, case Playing (lines 51-113): the engine after the call, the
\* collisions found and the item list before removeOffscreenItems
updatePlaying(s, deltaTime, persons, rnd) ==
    LET s1 == advanceTime(s, deltaTime)
    IN  IF s1.state = "GameOver"
        THEN [engine |-> s1, results |-> << >>, collided |-> << >>]
        ELSE LET s2 == [s1 EXCEPT !.phase = updatePhase(s1.gameTime)]
                 s3 == updateComboTimers(s2, deltaTime)
                 s4 == updateSpawn(s3, deltaTime, rnd)
                 s5 == [s4 EXCEPT !.fallingItems = updateItems(@, deltaTime)]
                 det == IF persons # << >>
                        THEN detectCollisions(s5.fallingItems, persons)
                        ELSE [items |-> s5.fallingItems, results |-> << >>]
                 s6 == ApplyCollisions(1, det.results,
                                       [s5 EXCEPT !.fallingItems = det.items])
                 s7 == [s6 EXCEPT !.fallingItems = removeOffscreenItems(@)]
             IN  [engine |-> s7, results |-> det.results, collided |-> det.items]

\* update with the GameOver case falling into the Playing case
update_gameOverPlays(s, deltaTime, persons, gesture, rnd) ==
    IF s.state = "Calibrating"
    THEN [engine |-> updateCalibrating(s, persons, gesture),
          results |-> << >>, collided |-> << >>]
    ELSE IF s.state = "Playing" \/ s.state = "GameOver"
    THEN updatePlaying(s, deltaTime, persons, rnd)
    ELSE [engine |-> s, results |-> << >>, collided |-> << >>]

\* GameEngine::update
update(s, deltaTime, persons, gesture, rnd) ==
    IF s.state = "Calibrating"
    THEN [engine |-> updateCalibrating(s, persons, gesture),
          results |-> << >>, collided |-> << >>]
    ELSE IF s.state = "Playing"
    THEN updatePlaying(s, deltaTime, persons, rnd)
    ELSE [engine |-> s, results |-> << >>, collided |-> << >>]

\* whether update(deltaTime) reaches spawnItem from s
WillSpawn(s, deltaTime) ==
    /\ s.state = "Playing"
    /\ s.remainingTime - deltaTime > 0
    /\ s.spawnTimer + deltaTime >= spawnInterval(updatePhase(s.gameTime + deltaTime))

----------------------------------------------------------------------------
(* The inputs *)

Hand(x, y, valid) == [x |-> x, y |-> y, valid |-> valid]
Person(id, leftHand, rightHand) ==
    [id |-> id, leftHand |-> leftHand, rightHand |-> rightHand]

\* the column in which items fall
ItemX == (5 * m_width) \div 10

\* wrists: on the path of the items; 82.5 px to the right of a Popcorn that has
\* fallen for 1/8 s (the collision boundary); 0.5 px further; far from any item
HandNear == Hand(ItemX, 0, TRUE)
HandNearInvalid == Hand(ItemX, 0, FALSE)
HandEdge == Hand(ItemX + 165, 0 - Px(10), TRUE)
HandOut == Hand(ItemX + 166, 0 - Px(10), TRUE)
HandFar == Hand(0, Px(700), TRUE)
HandNone == Hand(0, 0, FALSE)

\* the person lists offered to update: nobody; one person out of reach; one
\* person whose left wrist is on the path of the items; two persons of which
\* the second has a wrist on that path
PersonsSet ==
    { << >>,
      << Person(0, HandFar, HandNone) >>,
      << Person(0, HandNear, HandNone) >>,
      << Person(0, HandFar, HandNone), Person(1, HandNone, HandNear) >> }

\* the person lists handed to detectCollisions on its own
CollisionPersonsSet ==
    PersonsSet \cup
    { << Person(0, HandNear, HandNear) >>,
      << Person(0, HandNearInvalid, HandNear) >>,
      << Person(0, HandEdge, HandNone) >>,
      << Person(0, HandOut, HandNone) >>,
      << Person(0, HandNear, HandNone), Person(1, HandNear, HandNone) >> }

HandGesture(detected, isOkGesture) ==
    [detected |-> detected, isOkGesture |-> isOkGesture]
NoGesture ==
    [leftHand |-> HandGesture(FALSE, FALSE), rightHand |-> HandGesture(FALSE, FALSE)]

GestureSet ==
    { NoGesture,
      [leftHand |-> HandGesture(TRUE, TRUE), rightHand |-> HandGesture(FALSE, FALSE)],
      [leftHand |-> HandGesture(TRUE, FALSE), rightHand |-> HandGesture(TRUE, TRUE)] }

\* the draws of the random generators of spawnItem
RandomSet ==
    [xDist : XDistSet, typeRoll : TypeRollSet, speedVariation : SpeedVariationSet]
NoRandom == [xDist |-> 5, typeRoll |-> 0, speedVariation |-> 10]

----------------------------------------------------------------------------
(* camera/CameraCapture: the latest-frame slot, the capture thread and the
   calls of the consumer.

   A cv::Mat is modelled as a reference to a pixel buffer of heap, or "none"
   for an empty Mat.  clone() copies the pixels into a buffer of its own:
   buffer "L" is the one of the local frame of captureThread, "S" the one of
   m_currentFrame and "C" the one of the frame that getFrame hands to its
   caller.  The pixels of a frame are two halves, each holding the number of
   the device read that produced it, so that a copy taken in the middle of a
   write shows as a frame with two different halves. *)

\* successful reads of the device in one run
MaxFrames == 2

\* explicit shutdown() calls of the consumer (the destructor adds one)
MaxShutdowns == 2

NoPicture == << 0, 0 >>
Picture(n) == << n, n >>

\* CameraCapture.h: the defaults of the fields
CameraConstructed ==
    [ m_capture |-> "closed", m_currentFrame |-> "none", m_frameMutex |-> "free",
      m_thread |-> "none", m_running |-> FALSE, m_isOpened |-> FALSE ]

\* no capture thread yet; prevFailed and retryOk remember whether the latest
\* read failed and whether the latest successful read followed a failed one
CaptureNotStarted ==
    [ pc |-> "none", frame |-> "none", prevFailed |-> FALSE, retryOk |-> FALSE ]

\* the consumer before its first call: out is the Mat it passes to getFrame,
\* ret the value of its latest call, returned the pixels of the frame that
\* getFrame returned last, as they were when it returned
ConsumerIdle ==
    [ pc |-> "idle", life |-> "constructed", op |-> "none", ret |-> FALSE,
      out |-> "none", returned |-> NoPicture, shutdowns |-> 0 ]

HeapEmpty == [ b \in {"L", "S", "C"} |-> NoPicture ]

\* reads: the successful reads so far; published: the read number of the
\* frame that the latest completed write put into the slot
NoCamLog == [ reads |-> 0, published |-> 0 ]

\* CameraCapture::initialize; opened is m_capture.isOpened() after open()
CameraCapture_initialize(cam, opened) ==
    IF ~opened THEN cam
    ELSE [cam EXCEPT !.m_capture = "opened", !.m_isOpened = TRUE,
                     !.m_running = TRUE, !.m_thread = "joinable"]

\* a lock_guard that does not wait for the mutex
CanLock_noMutex(cam) == TRUE

\* std::lock_guard on m_frameMutex: the constructor returns once the mutex is
\* free
CanLock(cam) == cam.m_frameMutex = "free"

\* captureThread without the sleep-and-retry branch: a failed read ends it
afterRead_failEnds(ok) == IF ok THEN "lock" ELSE "ended"

\* captureThread, line 63: where the thread goes after m_capture.read
afterRead(ok) == IF ok THEN "lock" ELSE "sleep"

\* the second half of the copy left out
cloneSecond_skipped(hp, from, to) == hp

\* frame.clone(), the two halves of the pixel copy
cloneFirst(hp, from, to) == [hp EXCEPT ![to][1] = hp[from][1]]
cloneSecond(hp, from, to) == [hp EXCEPT ![to][2] = hp[from][2]]

\* getFrame with frame = m_currentFrame, a Mat that shares the slot's pixels
getFrameCopy_noClone(cam, hp, out) ==
    IF cam.m_currentFrame = "none"
    THEN [ret |-> FALSE, out |-> out, heap |-> hp]
    ELSE [ret |-> TRUE, out |-> cam.m_currentFrame, heap |-> hp]

\* getFrame without the test of m_currentFrame.empty()
getFrameCopy_noEmptyTest(cam, hp, out) ==
    IF cam.m_currentFrame = "none"
    THEN [ret |-> TRUE, out |-> "none", heap |-> hp]
    ELSE [ret |-> TRUE, out |-> "C",
          heap |-> [hp EXCEPT !["C"] = hp[cam.m_currentFrame]]]

\* getFrame, lines 78-83, for the caller's Mat out: the value returned, the
\* caller's Mat and the buffers afterwards
getFrameCopy(cam, hp, out) ==
    IF cam.m_currentFrame = "none"
    THEN [ret |-> FALSE, out |-> out, heap |-> hp]
    ELSE [ret |-> TRUE, out |-> "C",
          heap |-> [hp EXCEPT !["C"] = hp[cam.m_currentFrame]]]

\* shutdown, line 44
shutdownSignal(cam) == [cam EXCEPT !.m_running = FALSE]

\* a shutdown that does not wait for the thread
CanJoin_noWait(cam, cap) == TRUE

\* shutdown, lines 46-48: join() returns once captureThread has returned
CanJoin(cam, cap) == cam.m_thread = "joinable" => cap.pc = "ended"

shutdownJoin(cam) ==
    IF cam.m_thread = "joinable" THEN [cam EXCEPT !.m_thread = "joined"] ELSE cam

\* shutdown, lines 50-54
shutdownRelease(cam) == [cam EXCEPT !.m_capture = "closed", !.m_isOpened = FALSE]

-----------------------------------------------------------------------------
(* detection/PoseDetector and detection/GestureDetector.

   A frame is modelled by what the detectors take from it: its pixels (as in
   heap), its size, the keypoints that the pose network computes for it and
   the external contours of its skin mask.  Confidences are in 1/10, the
   coordinates of the network's output in 1/1000 of the frame's width or
   height; the values drawn make every product a whole number of half
   pixels. *)

\* PoseDetector.h line 123: the confidence a keypoint must exceed (0.3)
m_confidenceThreshold == 3

\* a keypoint of the network's output: [y, x, confidence]
Keypoint(x, y, conf) == [x |-> x, y |-> y, conf |-> conf]

\* the keypoints read by parseOutput that reach the engine or the test of
\* detect: both wrists and both shoulders
PoseOutput(leftWrist, rightWrist, leftShoulder, rightShoulder) ==
    [ leftWrist |-> leftWrist, rightWrist |-> rightWrist,
      leftShoulder |-> leftShoulder, rightShoulder |-> rightShoulder ]

\* a contour of the skin mask: its area, its bounding rectangle (x, width,
\* height in px) and the number of its convexity defects deeper than 20
Contour(area, x, width, height, deepDefects) ==
    [ area |-> area, x |-> x, width |-> width, height |-> height,
      deepDefects |-> deepDefects ]

Frame(pixels, cols, rows, output, contours) ==
    [ pixels |-> pixels, cols |-> cols, rows |-> rows, output |-> output,
      contours |-> contours ]

\* cv::Mat::empty()
FrameEmpty(frame) == frame.pixels = NoPicture

\* the fields of PoseDetector after construction (PoseDetector.h line 121,
\* Impl::hasModel); ret is the value returned by the latest initialize, "none"
\* before the first
PoseDetectorConstructed ==
    [ m_initialized |-> FALSE, hasModel |-> FALSE, ret |-> "none" ]

\* PoseDetector::initialize that goes on without the model file, as
\* GestureDetector::initialize does
PoseDetector_initialize_simulation(pd, fileGood, onnx, sessionOk) ==
    [ pd EXCEPT !.m_initialized = TRUE, !.hasModel = fileGood /\ onnx /\ sessionOk,
                !.ret = "true" ]

\* PoseDetector::initialize (lines 39-119).  fileGood: the model file can be
\* opened; onnx: the build has HAS_ONNXRUNTIME; sessionOk: creating the session
\* throws nothing
PoseDetector_initialize(pd, fileGood, onnx, sessionOk) ==
    IF ~fileGood
    THEN [ pd EXCEPT !.ret = "false" ]
    ELSE IF onnx /\ sessionOk
         THEN [ pd EXCEPT !.hasModel = TRUE, !.m_initialized = TRUE, !.ret = "true" ]
         ELSE [ pd EXCEPT !.ret = "false" ]

\* PoseDetector::shutdown (lines 121-133)
PoseDetector_shutdown(pd) ==
    [ pd EXCEPT !.m_initialized = FALSE, !.hasModel = FALSE ]

\* the lambda getKeypoint of parseOutput (lines 154-166)
getKeypoint(kp, frameWidth, frameHeight) ==
    Hand((kp.x * Px(frameWidth)) \div 1000, (kp.y * Px(frameHeight)) \div 1000,
         kp.conf > m_confidenceThreshold)

\* PoseDetector::parseOutput (lines 148-198): the fields of DetectedPerson
\* that the engine and detect read
parseOutput(output, frameWidth, frameHeight) ==
    LET leftShoulder == getKeypoint(output.leftShoulder, frameWidth, frameHeight)
        rightShoulder == getKeypoint(output.rightShoulder, frameWidth, frameHeight)
    IN  [ id |-> 0,
          leftHand |-> getKeypoint(output.leftWrist, frameWidth, frameHeight),
          rightHand |-> getKeypoint(output.rightWrist, frameWidth, frameHeight),
          shoulder |->
              IF leftShoulder.valid /\ rightShoulder.valid
              THEN Hand((leftShoulder.x + rightShoulder.x) \div 2,
                        (leftShoulder.y + rightShoulder.y) \div 2, TRUE)
              ELSE Hand(0, 0, FALSE) ]

\* PoseDetector::detect (lines 200-307).  inferenceOk: the inference throws
\* nothing
PoseDetector_detect(pd, frame, onnx, inferenceOk) ==
    IF ~pd.m_initialized \/ FrameEmpty(frame) THEN << >>
    ELSE IF ~onnx THEN << >>
    ELSE IF ~pd.hasModel THEN << >>
    ELSE IF ~inferenceOk THEN << >>
    ELSE LET person == parseOutput(frame.output, frame.cols, frame.rows)
         IN  IF person.leftHand.valid \/ person.rightHand.valid
                \/ person.shoulder.valid
             THEN << person >>
             ELSE << >>

\* the fields of GestureDetector after construction (GestureDetector.h,
\* m_initialized{false}; Impl::hasModel)
GestureDetectorConstructed ==
    [ m_initialized |-> FALSE, hasModel |-> FALSE, ret |-> "none" ]

\* GestureDetector::initialize (lines 40-108): every path returns true
GestureDetector_initialize(gd, fileGood, onnx, sessionOk) ==
    [ gd EXCEPT !.m_initialized = TRUE,
                !.hasModel = fileGood /\ onnx /\ sessionOk,
                !.ret = "true" ]

\* GestureDetector::shutdown (lines 110-122)
GestureDetector_shutdown(gd) ==
    [ gd EXCEPT !.m_initialized = FALSE, !.hasModel = FALSE ]

\* lines 157-163: the contours of an area above 5000
contourAreas(contours) == SelectSeq(contours, LAMBDA c : c.area > 5000)

\* the position of the first contour of the largest area
RECURSIVE LargestAt(_, _, _)
LargestAt(list, i, best) ==
    IF i > Len(list) THEN best
    ELSE LargestAt(list, i + 1, IF list[i].area > list[best].area THEN i ELSE best)

\* std::sort of lines 165-166: by area, the largest first
RECURSIVE sortByArea(_)
sortByArea(list) ==
    IF list = << >> THEN << >>
    ELSE LET k == LargestAt(list, 2, 1)
         IN  << list[k] >>
             \o sortByArea(SubSeq(list, 1, k - 1) \o SubSeq(list, k + 1, Len(list)))

\* lines 200-203: the test for the OK gesture on one contour
contourIsOk(c) ==
    /\ c.deepDefects >= 1 /\ c.deepDefects <= 3
    /\ 2 * c.width > c.height
    /\ c.width < 2 * c.height

\* the body of the loop of lines 168-222 that writes isOkGesture and leaves
\* detected as it was
assignHand_flagOnly(result, c, cols) ==
    IF 2 * c.x + c.width < cols
    THEN [ result EXCEPT !.rightHand.isOkGesture = contourIsOk(c) ]
    ELSE [ result EXCEPT !.leftHand.isOkGesture = contourIsOk(c) ]

\* the body of the loop of lines 168-222: centerX = x + width / 2 is compared
\* with cols / 2; the left half of the picture is the user's right hand
assignHand(result, c, cols) ==
    IF 2 * c.x + c.width < cols
    THEN [ result EXCEPT !.rightHand = HandGesture(TRUE, contourIsOk(c)) ]
    ELSE [ result EXCEPT !.leftHand = HandGesture(TRUE, contourIsOk(c)) ]

\* the loop of lines 168-222 from position i on
RECURSIVE assignHands(_, _, _, _, _)
assignHands(result, sorted, i, handCount, cols) ==
    IF i > Len(sorted) \/ handCount >= 2 THEN result
    ELSE assignHands(assignHand(result, sorted[i], cols), sorted, i + 1,
                     handCount + 1, cols)

\* GestureDetector::detect (lines 124-233): with a model loaded the result is
\* left as constructed (lines 224-227)
GestureDetector_detect(gd, frame) ==
    IF ~gd.m_initialized \/ FrameEmpty(frame) THEN NoGesture
    ELSE IF ~gd.hasModel
         THEN assignHands(NoGesture, sortByArea(contourAreas(frame.contours)),
                          1, 0, frame.cols)
         ELSE NoGesture

\* the most contours a frame of the inputs has
MaxContours == 3

\* Application.cpp line 43: the size asked of the camera
CameraWidth == 1280
CameraHeight == 720

\* the contours offered to the heuristic: a large one in the left half with
\* the shape of the OK gesture; one in the left half without deep defects; one
\* in the right half with that shape; one with that shape whose area is not
\* above 5000; one in the right half twice as wide as high
ContourShapes ==
    { Contour(9000, 100, 100, 100, 2),
      Contour(8000, 200, 100, 120, 0),
      Contour(6000, 900, 100, 100, 1),
      Contour(5000, 1000, 80, 80, 2),
      Contour(7000, 700, 200, 100, 2) }

ContourLists == UNION { [1..n -> ContourShapes] : n \in 0..MaxContours }

\* the outputs of the pose network: nobody; a person whose left wrist and
\* shoulders are seen; a person of whom only the shoulders are seen, the wrists
\* at the threshold
OutputNobody ==
    PoseOutput(Keypoint(500, 500, 1), Keypoint(500, 500, 1),
               Keypoint(500, 500, 1), Keypoint(500, 500, 2))
OutputPerson ==
    PoseOutput(Keypoint(250, 500, 8), Keypoint(750, 500, 2),
               Keypoint(400, 250, 9), Keypoint(600, 250, 9))
OutputShoulders ==
    PoseOutput(Keypoint(250, 500, 3), Keypoint(750, 500, 3),
               Keypoint(400, 250, 5), Keypoint(600, 250, 4))
OutputSet == { OutputNobody, OutputPerson, OutputShoulders }

NoFrame == Frame(NoPicture, 0, 0, OutputNobody, << >>)

\* the frames handed to the detectors called on their own
DetectFrames ==
    { Frame(Picture(1), CameraWidth, CameraHeight, OutputNobody, cs) :
          cs \in ContourLists }
    \cup { Frame(Picture(1), CameraWidth, CameraHeight, o, << >>) :
               o \in OutputSet }
    \cup { NoFrame }

\* the model files that exist and the build flag HAS_ONNXRUNTIME
EnvSet ==
    [ poseModelFile : BOOLEAN, handModelFile : BOOLEAN, HAS_ONNXRUNTIME : BOOLEAN ]
NoModels ==
    [ poseModelFile |-> FALSE, handModelFile |-> FALSE, HAS_ONNXRUNTIME |-> FALSE ]

\* no detect call yet
NoDetection ==
    [ op |-> "none", frame |-> NoFrame, persons |-> << >>, inferenceOk |-> TRUE,
      gesture |-> NoGesture ]

-----------------------------------------------------------------------------
(* core/Application: initialize, the loop of run and shutdown, as main calls
   them.  A unique_ptr field is TRUE when it holds an object. *)

\* the positions of main: "main" before initialize, then the steps of one tick
\* of run ("loop", "events", "update", "getFrame", "detect", "render"), then
\* shutdown ("shutdown", "join", "release") and "done"
AppConstructed ==
    [ pc |-> "main", m_running |-> FALSE, ret |-> "none",
      m_window |-> FALSE, m_renderer |-> FALSE, m_camera |-> FALSE,
      m_poseDetector |-> FALSE, m_gestureDetector |-> FALSE,
      m_gameEngine |-> FALSE,
      results |-> [ window |-> "none", renderer |-> "none", camera |-> "none",
                    pose |-> "none", gesture |-> "none", engine |-> "none" ],
      updated |-> FALSE, texture |-> NoPicture, rendered |-> NoPicture ]

(***************************************************************************)
(* ParticleSystem (src/render/ParticleSystem.cpp).  Times are whole        *)
(* milliseconds and sizes are in 1/4096 pixel.  The life of a particle, a   *)
(* fraction of its maxLife, is held as the number of milliseconds left:    *)
(* life = 1.0f is maxLife, and "life -= deltaTime / maxLife" takes         *)
(* deltaTime off it.  A particle is modelled by the fields that decide     *)
(* whether and how long it lives; its position, velocity and colour only   *)
(* feed render().                                                          *)
(***************************************************************************)

SizePx(p) == p * 4096

\* a Particle as std::vector::resize makes it (ParticleSystem.h lines 13-22)
NewParticle == [active |-> FALSE, size |-> 0, life |-> 0, maxLife |-> 0]

\* a ParticleSystem after its constructor: an empty pool
ParticleSystemConstructed == [m_particles |-> << >>, m_activeCount |-> 0]

\* ParticleSystem::initialize
ParticleSystem_initialize(ps, maxParticles) ==
    [ m_particles |->
          [ i \in 1..maxParticles |->
              IF i <= Len(ps.m_particles)
              THEN [ps.m_particles[i] EXCEPT !.active = FALSE]
              ELSE NewParticle ],
      m_activeCount |-> 0 ]

\* acquireParticle that takes the last free slot
acquireParticle_lastFree(particles) ==
    IF \E i \in DOMAIN particles : ~particles[i].active
    THEN CHOOSE i \in DOMAIN particles :
             /\ ~particles[i].active
             /\ \A j \in (i + 1)..Len(particles) : particles[j].active
    ELSE 0

\* ParticleSystem::acquireParticle: the index of the slot it returns, 0 for
\* nullptr; the slot is marked active by emitInto
acquireParticle(particles) ==
    IF \E i \in DOMAIN particles : ~particles[i].active
    THEN CHOOSE i \in DOMAIN particles :
             /\ ~particles[i].active
             /\ \A j \in 1..(i - 1) : particles[j].active
    ELSE 0

\* min + m_unitDist(m_rng) * (max - min), the draw u counted in halves
UnitDraw(min, u, max) == min + (u * (max - min)) \div 2

\* the loop of emit from its i-th round on: draws[p] are the values that
\* m_unitDist gives for the particle that is put into slot p
RECURSIVE emitFrom(_, _, _, _, _, _, _, _)
emitFrom(particles, i, count, minSize, maxSize, minLife, maxLife, draws) ==
    IF i > count THEN particles
    ELSE LET p == acquireParticle(particles)
         IN  IF p = 0 THEN particles
             ELSE LET life == UnitDraw(minLife, draws[p].life, maxLife)
                      born == [ active |-> TRUE,
                                size |-> UnitDraw(minSize, draws[p].size, maxSize),
                                maxLife |-> life,
                                life |-> life ]
                  IN  emitFrom([particles EXCEPT ![p] = born], i + 1, count,
                               minSize, maxSize, minLife, maxLife, draws)

\* ParticleSystem::emit
emit(ps, count, minSize, maxSize, minLife, maxLife, draws) ==
    [ps EXCEPT !.m_particles =
         emitFrom(ps.m_particles, 1, count, minSize, maxSize, minLife, maxLife,
                  draws)]

\* ParticleSystem::createCaptureExplosion
createCaptureExplosion(ps, isPerfect, draws) ==
    IF isPerfect
    THEN emit(emit(ps, 30, SizePx(4), SizePx(12), 300, 800, draws),
              15, SizePx(2), SizePx(6), 200, 500, draws)
    ELSE emit(ps, 20, SizePx(3), SizePx(8), 200, 600, draws)

\* ParticleSystem::createBombExplosion
createBombExplosion(ps, draws) ==
    emit(emit(emit(ps, 40, SizePx(5), SizePx(15), 300, 1000, draws),
              30, SizePx(8), SizePx(20), 500, 1200, draws),
         15, SizePx(2), SizePx(5), 200, 400, draws)

\* ParticleSystem::createComboEffect: its loop is the loop of emit with
\* sizes 4 + u * 4 and lives 0.5 + u * 0.5
createComboEffect(ps, comboCount, draws) ==
    LET particleCount == IF 10 + comboCount * 3 < 50 THEN 10 + comboCount * 3
                         ELSE 50
    IN  emit(ps, particleCount, SizePx(4), SizePx(8), 500, 1000, draws)

\* ParticleSystem::createScorePopup
createScorePopup(ps, score, draws) ==
    LET count == (IF score < 0 THEN -score ELSE score) \div 10 + 3
    IN  emit(ps, count, SizePx(2), SizePx(5), 200, 500, draws)

\* the body of the loop of update for one active particle
updateParticle(p, deltaTime) ==
    LET life == p.life - deltaTime
        size == (p.size * (2000 - deltaTime)) \div 2000
    IN  IF life <= 0
        THEN [p EXCEPT !.life = life, !.active = FALSE]
        ELSE [p EXCEPT !.life = life,
                       !.size = IF size < SizePx(1) THEN SizePx(1) ELSE size]

\* ParticleSystem::update that keeps a particle whose life has run out
ParticleSystem_update_neverRetires(ps, deltaTime) ==
    LET particles == [ i \in DOMAIN ps.m_particles |->
                         IF ps.m_particles[i].active
                         THEN [updateParticle(ps.m_particles[i], deltaTime)
                                   EXCEPT !.active = TRUE]
                         ELSE ps.m_particles[i] ]
    IN  [ m_particles |-> particles,
          m_activeCount |-> Cardinality({i \in DOMAIN particles :
                                             particles[i].active}) ]

\* ParticleSystem::update
ParticleSystem_update(ps, deltaTime) ==
    LET particles == [ i \in DOMAIN ps.m_particles |->
                         IF ps.m_particles[i].active
                         THEN updateParticle(ps.m_particles[i], deltaTime)
                         ELSE ps.m_particles[i] ]
    IN  [ m_particles |-> particles,
          m_activeCount |-> Cardinality({i \in DOMAIN particles :
                                             particles[i].active}) ]

\* ParticleSystem::clear
ParticleSystem_clear(ps) ==
    [ m_particles |-> [ i \in DOMAIN ps.m_particles |->
                          [ps.m_particles[i] EXCEPT !.active = FALSE] ],
      m_activeCount |-> 0 ]

\* ParticleSystem::getActiveCount
getActiveCount(ps) == ps.m_activeCount

(***************************************************************************)
(* The screen shake and the flash of Renderer (src/core/Renderer.cpp).     *)
(* Times are whole milliseconds, the shake is in 1/4 pixel and the flash   *)
(* in thousandths.                                                         *)
(***************************************************************************)

ShakePx(p) == p * 4

\* the shake and flash fields of a Renderer (Renderer.h lines 155-162)
RendererConstructed ==
    [ m_shakeIntensity |-> 0, m_shakeDuration |-> 0, m_shakeTime |-> 0,
      m_shakeOffsetX |-> 0, m_shakeOffsetY |-> 0, m_flashIntensity |-> 0 ]

\* Renderer::triggerScreenShake
triggerScreenShake(r, intensity, duration) ==
    [r EXCEPT !.m_shakeIntensity = intensity, !.m_shakeDuration = duration,
              !.m_shakeTime = 0]

\* currentIntensity of updateScreenShake (lines 756-757)
currentIntensity(r) ==
    (r.m_shakeIntensity * (r.m_shakeDuration - r.m_shakeTime))
        \div r.m_shakeDuration

\* the shake that does not fade: the offsets are drawn from m_shakeIntensity
shakeOffset_noFade(r, dist) == (dist * r.m_shakeIntensity) \div 2

\* dist(s_rng) * currentIntensity, the draw dist counted in halves
shakeOffset(r, dist) == (dist * currentIntensity(r)) \div 2

\* Renderer::updateScreenShake
updateScreenShake(r, deltaTime, distX, distY) ==
    IF r.m_shakeDuration <= 0
    THEN [r EXCEPT !.m_shakeOffsetX = 0, !.m_shakeOffsetY = 0]
    ELSE LET t == [r EXCEPT !.m_shakeTime = r.m_shakeTime + deltaTime]
         IN  IF t.m_shakeTime >= t.m_shakeDuration
             THEN [t EXCEPT !.m_shakeDuration = 0, !.m_shakeOffsetX = 0,
                            !.m_shakeOffsetY = 0]
             ELSE [t EXCEPT !.m_shakeOffsetX = shakeOffset(t, distX),
                            !.m_shakeOffsetY = shakeOffset(t, distY)]

\* Renderer::triggerFlash
triggerFlash(r, intensity) == [r EXCEPT !.m_flashIntensity = intensity]

\* the flash that decays without the floor of std::max
flashDecay_noFloor(intensity, deltaTime) == intensity - 3 * deltaTime

\* std::max(0.0f, m_flashIntensity - deltaTime * 3.0f)
flashDecay(intensity, deltaTime) ==
    IF intensity - 3 * deltaTime < 0 THEN 0 ELSE intensity - 3 * deltaTime

\* Renderer::updateFlash
updateFlash(r, deltaTime) ==
    IF r.m_flashIntensity > 0
    THEN [r EXCEPT !.m_flashIntensity = flashDecay(r.m_flashIntensity, deltaTime)]
    ELSE r

\* no call of ParticleSystem or Renderer yet
NoEffect == [op |-> "none", deltaTime |-> 0, count |-> 0]

\* a Renderer and a ParticleSystem that nothing has used
EffectsConstructed ==
    /\ particleSystem = ParticleSystemConstructed
    /\ renderer = RendererConstructed
    /\ effect = NoEffect

\* the camera with nobody using it
CameraIdle ==
    /\ camera = CameraConstructed
    /\ capture = CaptureNotStarted
    /\ consumer = ConsumerIdle
    /\ heap = HeapEmpty
    /\ camLog = NoCamLog

\* no Application: the detectors constructed, no model file
OutsideEngine ==
    /\ CameraIdle
    /\ EffectsConstructed
    /\ app = AppConstructed
    /\ poseDetector = PoseDetectorConstructed
    /\ gestureDetector = GestureDetectorConstructed
    /\ env = NoModels
    /\ detection = NoDetection

\* GameEngine::initialize (GameEngine.cpp lines 12-21) returns true
GameEngine_initialize == TRUE

\* Application::initialize that gives up when the pose detector fails
Application_initialize_poseFatal(a, windowOk, rendererOk, cameraOk, poseOk, gestureOk, engineOk) ==
    LET w == [a EXCEPT !.m_window = TRUE, !.ret = "false"]
        r == [w EXCEPT !.m_renderer = TRUE]
        c == [r EXCEPT !.m_camera = TRUE]
        p == [c EXCEPT !.m_poseDetector = TRUE]
        e == [p EXCEPT !.m_gestureDetector = TRUE, !.m_gameEngine = TRUE]
    IN  IF ~windowOk THEN w
        ELSE IF ~rendererOk THEN r
        ELSE IF ~cameraOk THEN c
        ELSE IF ~poseOk THEN p
        ELSE IF ~engineOk THEN e
        ELSE [e EXCEPT !.m_running = TRUE, !.ret = "true"]

\* Application::initialize (lines 21-83), given what the initialize of each
\* component returns: the fields and the value returned
Application_initialize(a, windowOk, rendererOk, cameraOk, poseOk, gestureOk, engineOk) ==
    LET w == [a EXCEPT !.m_window = TRUE, !.ret = "false"]
        r == [w EXCEPT !.m_renderer = TRUE]
        c == [r EXCEPT !.m_camera = TRUE]
        e == [c EXCEPT !.m_poseDetector = TRUE, !.m_gestureDetector = TRUE,
                       !.m_gameEngine = TRUE]
    IN  IF ~windowOk THEN w
        ELSE IF ~rendererOk THEN r
        ELSE IF ~cameraOk THEN c
        ELSE IF ~engineOk THEN e
        ELSE [e EXCEPT !.m_running = TRUE, !.ret = "true"]

\* a value returned, as it is recorded
Returned(b) == IF b THEN "true" ELSE "false"

\* what the initialize of each component returned, "none" for a component
\* that initialize did not reach
InitResults(a, windowOk, rendererOk, cameraOk, poseOk, gestureOk, engineOk) ==
    [ window |-> Returned(windowOk),
      renderer |-> IF a.m_renderer THEN Returned(rendererOk) ELSE "none",
      camera |-> IF a.m_camera THEN Returned(cameraOk) ELSE "none",
      pose |-> IF a.m_poseDetector THEN Returned(poseOk) ELSE "none",
      gesture |-> IF a.m_gestureDetector THEN Returned(gestureOk) ELSE "none",
      engine |-> IF a.m_gameEngine THEN Returned(engineOk) ELSE "none" ]

\* what is in front of the camera at the n-th read: a person showing the OK
\* gesture; nobody; a person of whom the shoulders are seen, the hand open
SceneOutput(n) ==
    IF n % 3 = 1 THEN OutputPerson
    ELSE IF n % 3 = 2 THEN OutputNobody ELSE OutputShoulders
SceneContours(n) ==
    IF n % 3 = 1 THEN << Contour(9000, 100, 100, 100, 2) >>
    ELSE IF n % 3 = 2 THEN << >> ELSE << Contour(8000, 200, 100, 120, 0) >>

\* the frame that the detectors see in these pixels, those of the n-th read
FrameOf(pixels) ==
    Frame(pixels, CameraWidth, CameraHeight, SceneOutput(pixels[1]),
          SceneContours(pixels[1]))

\* update that hands the detectors the slot of the camera
tickFrame_slot(hp, out, cam) == FrameOf(hp[cam.m_currentFrame])

\* Application::update, lines 134-135: the local frame that getFrame filled
tickFrame(hp, out, cam) == FrameOf(hp[out])

\* lines 139-142 and 145-148: a detector runs if it exists and is initialized
tickPersons(a, pd, frame, onnx, inferenceOk) ==
    IF a.m_poseDetector /\ pd.m_initialized
    THEN PoseDetector_detect(pd, frame, onnx, inferenceOk)
    ELSE << >>
tickGesture(a, gd, frame) ==
    IF a.m_gestureDetector /\ gd.m_initialized
    THEN GestureDetector_detect(gd, frame)
    ELSE NoGesture

\* the deltaTime of the ticks of run
AppDtSet == { 0, Sec(45) }

----------------------------------------------------------------------------
(* The state machine *)

\* the record of a call: the operation, the state it was called in and, for
\* update, the arguments that the case of that state reads besides persons
\* (the gesture in Calibrating, deltaTime in Playing, neither in the others)
Called(op) == [op |-> op, from |-> m_state]
CalledUpdate(deltaTime, gesture) ==
    IF m_state = "Calibrating"
    THEN [op |-> "update", from |-> m_state, gesture |-> gesture]
    ELSE IF m_state = "Playing"
    THEN [op |-> "update", from |-> m_state, dt |-> deltaTime]
    ELSE Called("update")

PersonIds == {0, 1}
NoCapture == [k \in PersonIds |-> -1]

\* lastCapture after an update call that returned r
Captured(r) ==
    IF r.engine.state = "Playing" /\ m_state = "Calibrating" THEN NoCapture
    ELSE [ k \in PersonIds |->
             IF \E i \in DOMAIN r.results :
                   r.results[i].personId = k /\ r.results[i].scoreChange > 0
             THEN r.engine.gameTime
             ELSE lastCapture[k] ]

NoneSpawned == [life |-> {}, game |-> {}]

\* spawnedIds after an update call that returned r: the call has reset the
\* engine (a start from Calibrating) or has pushed the items of r.collided
\* that were not in the list before
Spawned(r) ==
    IF r.engine.state = "Playing" /\ m_state = "Calibrating"
    THEN [spawnedIds EXCEPT !.game = {}]
    ELSE LET new == { r.collided[i].id :
                        i \in Len(m_fallingItems) + 1 .. Len(r.collided) }
         IN  [life |-> spawnedIds.life \cup new, game |-> spawnedIds.game \cup new]

\* capturedItems after an update call that returned r: emptied by the reset()
\* of a start from Calibrating, else extended by the items of r.results, each
\* with the type it has in r.collided
CapturedItems(r) ==
    IF r.engine.state = "Playing" /\ m_state = "Calibrating" THEN << >>
    ELSE capturedItems \o
         [ j \in DOMAIN r.results |->
             LET i == CHOOSE i \in DOMAIN r.collided :
                          r.collided[i].id = r.results[j].itemId
             IN  [id |-> r.results[j].itemId, type |-> r.collided[i].type] ]

EngineConstructed ==
    /\ m_state = "Calibrating"
    /\ m_phase = "Warmup"
    /\ m_p1Score = 0
    /\ m_p2Score = 0
    /\ m_p1Combo = 0
    /\ m_p2Combo = 0
    /\ m_p1ComboTimer = 0
    /\ m_p2ComboTimer = 0
    /\ m_gameTime = 0
    /\ m_remainingTime = GAME_DURATION
    /\ m_spawnTimer = 0
    /\ m_fallingItems = << >>
    /\ m_detectedPersons = << >>
    /\ m_nextItemId = 0
    /\ call = Called("init")
    /\ collisions = << >>
    /\ collidedItems = << >>
    /\ lastCapture = NoCapture
    /\ spawnedIds = NoneSpawned
    /\ capturedItems = << >>

\* a GameEngine of its own, with no camera
Init == EngineConstructed /\ OutsideEngine

\* GameEngine::update called with these arguments
UpdateWith(deltaTime, persons, gesture) ==
    /\ WillSpawn(Engine, deltaTime) => m_nextItemId < MaxItemId
    /\ \E rnd \in IF WillSpawn(Engine, deltaTime) THEN RandomSet ELSE {NoRandom} :
          LET r == update(Engine, deltaTime, persons, gesture, rnd)
          IN  /\ SetEngine(r.engine)
              /\ m_detectedPersons' = persons
              /\ call' = CalledUpdate(deltaTime, gesture)
              /\ collisions' = r.results
              /\ collidedItems' = r.collided
              /\ lastCapture' = Captured(r)
              /\ spawnedIds' = Spawned(r)
              /\ capturedItems' = CapturedItems(r)

\* a call of GameEngine::update
Update ==
    /\ \E deltaTime \in DtSet, persons \in PersonsSet, gesture \in GestureSet :
          UpdateWith(deltaTime, persons, gesture)
    /\ UNCHANGED outsideVars

\* a call of GameEngine::startGame
StartGame ==
    /\ SetEngine(startGame(Engine))
    /\ call' = Called("startGame")
    /\ collisions' = << >>
    /\ collidedItems' = << >>
    /\ lastCapture' = IF startGame(Engine) = Engine THEN lastCapture ELSE NoCapture
    /\ spawnedIds' = IF startGame(Engine) = Engine THEN spawnedIds
                     ELSE [spawnedIds EXCEPT !.game = {}]
    /\ capturedItems' = IF startGame(Engine) = Engine THEN capturedItems ELSE << >>
    /\ UNCHANGED outsideVars
    /\ UNCHANGED m_detectedPersons

\* a call of GameEngine::togglePause
TogglePause ==
    /\ SetEngine(togglePause(Engine))
    /\ call' = Called("togglePause")
    /\ collisions' = << >>
    /\ collidedItems' = << >>
    /\ UNCHANGED << lastCapture, spawnedIds, capturedItems >>
    /\ UNCHANGED m_detectedPersons
    /\ UNCHANGED outsideVars

\* a call of GameEngine::reset
Reset ==
    /\ SetEngine(reset(Engine))
    /\ call' = Called("reset")
    /\ collisions' = << >>
    /\ collidedItems' = << >>
    /\ lastCapture' = NoCapture
    /\ spawnedIds' = [spawnedIds EXCEPT !.game = {}]
    /\ capturedItems' = << >>
    /\ UNCHANGED m_detectedPersons
    /\ UNCHANGED outsideVars

Next == Update \/ StartGame \/ TogglePause \/ Reset

Spec == Init /\ [][Next]_vars

----------------------------------------------------------------------------
(* CollisionSystem::detectCollisions on its own: the item lists and person   *)
(* lists it is applied to are drawn by the initial state                     *)

\* the longest item list handed to detectCollisions
MaxListLen == 2

\* where the items of those lists are: where a Popcorn is after 1/8 s of fall,
\* and far below every wrist of PersonsSet
ItemSpots == { [x |-> ItemX, y |-> 0 - Px(10)], [x |-> ItemX, y |-> Px(400)] }

ItemShapes ==
    [ type : {"Popcorn", "Ticket", "Bomb"}, spot : ItemSpots, active : BOOLEAN ]

\* the item of shape sh with id id
ShapedItem(id, sh) ==
    [ id |-> id, type |-> sh.type, x |-> sh.spot.x, y |-> sh.spot.y,
      size |-> Px(ITEM_CONFIGS[sh.type].size),
      speed |-> (Px(PHASE_CONFIGS["Warmup"].fallSpeed)
                   * ITEM_CONFIGS[sh.type].speedMultiplier) \div 10,
      active |-> sh.active ]

ItemLists ==
    UNION { { [i \in 1..n |-> ShapedItem(i - 1, shapes[i])] :
                shapes \in [1..n -> ItemShapes] } : n \in 0..MaxListLen }

InitCollision ==
    /\ m_state = "Playing"
    /\ m_phase = "Warmup"
    /\ m_p1Score = 0
    /\ m_p2Score = 0
    /\ m_p1Combo = 0
    /\ m_p2Combo = 0
    /\ m_p1ComboTimer = 0
    /\ m_p2ComboTimer = 0
    /\ m_gameTime = 0
    /\ m_remainingTime = GAME_DURATION
    /\ m_spawnTimer = 0
    /\ m_fallingItems \in ItemLists
    /\ m_detectedPersons \in CollisionPersonsSet
    /\ m_nextItemId = Len(m_fallingItems)
    /\ call = Called("init")
    /\ collisions = << >>
    /\ collidedItems = << >>
    /\ lastCapture = NoCapture
    /\ spawnedIds = [ life |-> 0 .. m_nextItemId - 1,
                      game |-> 0 .. m_nextItemId - 1 ]
    /\ capturedItems = << >>
    /\ OutsideEngine

\* a call of detectCollisions(m_fallingItems, m_detectedPersons): the items are
\* passed by reference and modified in place; call.earlier keeps the results
\* that the earlier calls on the same items returned
DetectCollisions ==
    LET det == detectCollisions(m_fallingItems, m_detectedPersons)
    IN  /\ m_fallingItems' = det.items
        /\ collisions' = det.results
        /\ collidedItems' = det.items
        /\ call' = [ op |-> "detectCollisions", from |-> m_state,
                     earlier |-> IF call.op = "detectCollisions"
                                 THEN call.earlier \o collisions ELSE << >> ]
        /\ UNCHANGED << m_state, m_phase, m_p1Score, m_p2Score, m_p1Combo, m_p2Combo,
                        m_p1ComboTimer, m_p2ComboTimer, m_gameTime, m_remainingTime,
                        m_spawnTimer, m_detectedPersons, m_nextItemId, lastCapture,
                        spawnedIds, capturedItems >>
        /\ UNCHANGED outsideVars

NextCollision == DetectCollisions

SpecCollision == InitCollision /\ [][NextCollision]_vars

----------------------------------------------------------------------------
(* The engine from the middle of a game, with items close to the lower edge:
   update accepts any float deltaTime, so an item can come to lie at any
   height, also at heights that the steps of DtSet do not reach from -50 px *)

\* the heights of the lower item: one tick of 1/8 s (50 px for a Ticket in
\* Warmup) away from m_height + 100, 0.5 px less than that, and 10 px less
FallYSet ==
    { m_height + Px(100) - Px(50), m_height + Px(100) - Px(50) + 1,
      m_height + Px(100) - Px(60) }

\* a Ticket spawned in Warmup, now at height y
FallingTicket(id, y) ==
    [ id |-> id, type |-> "Ticket", x |-> ItemX, y |-> y,
      size |-> Px(ITEM_CONFIGS["Ticket"].size),
      speed |-> (Px(PHASE_CONFIGS["Warmup"].fallSpeed)
                   * ITEM_CONFIGS["Ticket"].speedMultiplier) \div 10,
      active |-> TRUE ]

\* 3 s into a game in which nothing was captured: two Tickets are falling,
\* the second 100 px above the first, and the spawner has just fired
InitFall ==
    /\ m_state = "Playing"
    /\ m_phase = "Warmup"
    /\ m_p1Score = 0
    /\ m_p2Score = 0
    /\ m_p1Combo = 0
    /\ m_p2Combo = 0
    /\ m_p1ComboTimer = 0 - Sec(3)
    /\ m_p2ComboTimer = 0 - Sec(3)
    /\ m_gameTime = Sec(3)
    /\ m_remainingTime = GAME_DURATION - Sec(3)
    /\ m_spawnTimer = 0
    /\ \E y \in FallYSet :
          m_fallingItems = << FallingTicket(0, y), FallingTicket(1, y - Px(100)) >>
    /\ m_detectedPersons = << >>
    /\ m_nextItemId = 2
    /\ call = Called("init")
    /\ collisions = << >>
    /\ collidedItems = << >>
    /\ lastCapture = NoCapture
    /\ spawnedIds = [life |-> {0, 1}, game |-> {0, 1}]
    /\ capturedItems = << >>
    /\ OutsideEngine

SpecFall == InitFall /\ [][Next]_vars

----------------------------------------------------------------------------
(* The camera: the capture thread and a consumer that calls initialize once,
   then getFrame and shutdown in any order, and at last the destructor *)

\* captureThread, line 62: the test of m_running
CaptureLoop ==
    /\ capture.pc = "loop"
    /\ capture' = [capture EXCEPT !.pc = IF camera.m_running THEN "read" ELSE "ended"]
    /\ UNCHANGED << effectVars, camera, consumer, heap, camLog, gameVars, appVars >>

\* captureThread, line 63: m_capture.read(frame) returns; a successful read
\* leaves the next picture in the local frame, a failed one leaves it empty
CaptureRead ==
    /\ capture.pc = "read"
    /\ \E ok \in BOOLEAN :
          /\ ok => camLog.reads < MaxFrames
          /\ capture' = [capture EXCEPT !.pc = afterRead(ok),
                                        !.frame = IF ok THEN "L" ELSE "none",
                                        !.prevFailed = ~ok,
                                        !.retryOk = IF ok THEN capture.prevFailed ELSE @]
          /\ heap' = IF ok THEN [heap EXCEPT !["L"] = Picture(camLog.reads + 1)]
                     ELSE heap
          /\ camLog' = IF ok THEN [camLog EXCEPT !.reads = @ + 1] ELSE camLog
    /\ UNCHANGED << effectVars, camera, consumer, gameVars, appVars >>

\* captureThread, line 64
CaptureLock ==
    /\ capture.pc = "lock"
    /\ CanLock(camera)
    /\ camera' = [camera EXCEPT !.m_frameMutex = "capture"]
    /\ capture' = [capture EXCEPT !.pc = "clone"]
    /\ UNCHANGED << effectVars, consumer, heap, camLog, gameVars, appVars >>

\* captureThread, line 65: the first half of the pixels goes into the slot
CaptureCloneFirst ==
    /\ capture.pc = "clone"
    /\ heap' = cloneFirst(heap, capture.frame, "S")
    /\ capture' = [capture EXCEPT !.pc = "assign"]
    /\ UNCHANGED << effectVars, camera, consumer, camLog, gameVars, appVars >>

\* captureThread, line 65 to the end of the block: the second half, the
\* slot refers to the pixels, the lock_guard releases the mutex
CaptureCloneSecond ==
    /\ capture.pc = "assign"
    /\ heap' = cloneSecond(heap, capture.frame, "S")
    /\ camera' = [camera EXCEPT !.m_currentFrame = "S", !.m_frameMutex = "free"]
    /\ capture' = [capture EXCEPT !.pc = "loop"]
    /\ camLog' = [camLog EXCEPT !.published = heap[capture.frame][1]]
    /\ UNCHANGED << effectVars, consumer, gameVars, appVars >>

\* captureThread, line 68: the sleep of 10 ms is over
CaptureSleep ==
    /\ capture.pc = "sleep"
    /\ capture' = [capture EXCEPT !.pc = "loop"]
    /\ UNCHANGED << effectVars, camera, consumer, heap, camLog, gameVars, appVars >>

CaptureThread ==
    \/ CaptureLoop \/ CaptureRead \/ CaptureLock
    \/ CaptureCloneFirst \/ CaptureCloneSecond \/ CaptureSleep

\* a call of CameraCapture::initialize, which starts the thread
CamInitialize ==
    /\ consumer.pc = "idle" /\ consumer.life = "constructed"
    /\ \E opened \in BOOLEAN :
          /\ camera' = CameraCapture_initialize(camera, opened)
          /\ capture' = IF CameraCapture_initialize(camera, opened).m_thread = "joinable"
                        THEN [capture EXCEPT !.pc = "loop"] ELSE capture
          /\ consumer' = [consumer EXCEPT !.op = "initialize", !.ret = opened,
                                          !.life = IF opened THEN "initialized"
                                                   ELSE "failed"]
    /\ UNCHANGED << effectVars, heap, camLog, gameVars, appVars >>

\* a call of CameraCapture::getFrame, line 76
CamGetFrameLock ==
    /\ consumer.pc = "idle" /\ consumer.life # "destroyed"
    /\ CanLock(camera)
    /\ camera' = [camera EXCEPT !.m_frameMutex = "consumer"]
    /\ consumer' = [consumer EXCEPT !.pc = "getFrame", !.op = "getFrame"]
    /\ UNCHANGED << effectVars, capture, heap, camLog, gameVars, appVars >>

\* getFrame, lines 78-84: the test, the copy, the release of the mutex
CamGetFrameCopy ==
    /\ consumer.pc = "getFrame"
    /\ LET r == getFrameCopy(camera, heap, consumer.out)
       IN  /\ heap' = r.heap
           /\ consumer' = [consumer EXCEPT
                              !.pc = "idle", !.ret = r.ret, !.out = r.out,
                              !.returned = IF r.ret /\ r.out # "none"
                                           THEN r.heap[r.out] ELSE @]
    /\ camera' = [camera EXCEPT !.m_frameMutex = "free"]
    /\ UNCHANGED << effectVars, capture, camLog, gameVars, appVars >>

\* a call of shutdown(), by the consumer or by the destructor: line 44
ShutdownCall(op) ==
    /\ consumer.pc = "idle" /\ consumer.life # "destroyed"
    /\ camera' = shutdownSignal(camera)
    /\ consumer' = [consumer EXCEPT !.pc = "join", !.op = op, !.shutdowns = @ + 1]
    /\ UNCHANGED << effectVars, capture, heap, camLog, gameVars, appVars >>

CamShutdown == consumer.shutdowns < MaxShutdowns /\ ShutdownCall("shutdown")

\* ~CameraCapture
CamDestructor == consumer.life # "destroyed" /\ ShutdownCall("destructor")

\* shutdown, lines 46-48
CamJoin ==
    /\ consumer.pc = "join"
    /\ CanJoin(camera, capture)
    /\ camera' = shutdownJoin(camera)
    /\ consumer' = [consumer EXCEPT !.pc = "release"]
    /\ UNCHANGED << effectVars, capture, heap, camLog, gameVars, appVars >>

\* shutdown, lines 50-56
CamRelease ==
    /\ consumer.pc = "release"
    /\ camera' = shutdownRelease(camera)
    /\ consumer' = [consumer EXCEPT !.pc = "idle",
                                    !.life = IF consumer.op = "destructor"
                                             THEN "destroyed" ELSE "shutdown"]
    /\ UNCHANGED << effectVars, capture, heap, camLog, gameVars, appVars >>

NextCamera ==
    \/ CaptureLoop \/ CaptureRead \/ CaptureLock
    \/ CaptureCloneFirst \/ CaptureCloneSecond \/ CaptureSleep
    \/ CamInitialize \/ CamGetFrameLock \/ CamGetFrameCopy
    \/ CamShutdown \/ CamDestructor \/ CamJoin \/ CamRelease

SpecCamera == Init /\ [][NextCamera]_vars

\* the scheduler runs the capture thread and lets a shutdown() call go on
SpecCameraLive ==
    /\ SpecCamera
    /\ WF_vars(CaptureThread) /\ WF_vars(CamJoin) /\ WF_vars(CamRelease)

-----------------------------------------------------------------------------
(* The detectors on their own: initialize, detect and shutdown of
   PoseDetector and GestureDetector in any order, for every combination of
   model files and build flag.  The initial state draws the frame that the
   detect calls are given. *)

InitDetectors ==
    /\ EngineConstructed
    /\ CameraIdle
    /\ EffectsConstructed
    /\ app = AppConstructed
    /\ poseDetector = PoseDetectorConstructed
    /\ gestureDetector = GestureDetectorConstructed
    /\ env \in EnvSet
    /\ \E frame \in DetectFrames :
           detection = [NoDetection EXCEPT !.frame = frame]

PoseInitialize ==
    /\ \E sessionOk \in BOOLEAN :
           poseDetector' = PoseDetector_initialize(poseDetector, env.poseModelFile,
                                                   env.HAS_ONNXRUNTIME, sessionOk)
    /\ UNCHANGED << effectVars, gameVars, camera, capture, consumer, heap, camLog,
                    app, gestureDetector, env, detection >>

PoseDetect ==
    /\ \E inferenceOk \in BOOLEAN :
           detection' =
               [ op |-> "PoseDetector::detect", frame |-> detection.frame,
                 persons |-> PoseDetector_detect(poseDetector, detection.frame,
                                                 env.HAS_ONNXRUNTIME, inferenceOk),
                 inferenceOk |-> inferenceOk,
                 gesture |-> NoGesture ]
    /\ UNCHANGED << effectVars, gameVars, camera, capture, consumer, heap, camLog,
                    app, poseDetector, gestureDetector, env >>

PoseShutdown ==
    /\ poseDetector' = PoseDetector_shutdown(poseDetector)
    /\ UNCHANGED << effectVars, gameVars, camera, capture, consumer, heap, camLog,
                    app, gestureDetector, env, detection >>

GestureInitialize ==
    /\ \E sessionOk \in BOOLEAN :
           gestureDetector' =
               GestureDetector_initialize(gestureDetector, env.handModelFile,
                                          env.HAS_ONNXRUNTIME, sessionOk)
    /\ UNCHANGED << effectVars, gameVars, camera, capture, consumer, heap, camLog,
                    app, poseDetector, env, detection >>

GestureDetect ==
    /\ detection' =
           [ op |-> "GestureDetector::detect", frame |-> detection.frame,
             persons |-> << >>, inferenceOk |-> TRUE,
             gesture |-> GestureDetector_detect(gestureDetector, detection.frame) ]
    /\ UNCHANGED << effectVars, gameVars, camera, capture, consumer, heap, camLog,
                    app, poseDetector, gestureDetector, env >>

GestureShutdown ==
    /\ gestureDetector' = GestureDetector_shutdown(gestureDetector)
    /\ UNCHANGED << effectVars, gameVars, camera, capture, consumer, heap, camLog,
                    app, poseDetector, env, detection >>

NextDetectors ==
    \/ PoseInitialize \/ PoseDetect \/ PoseShutdown
    \/ GestureInitialize \/ GestureDetect \/ GestureShutdown

SpecDetectors == InitDetectors /\ [][NextDetectors]_vars

-----------------------------------------------------------------------------
(* The application: main calls initialize, run and shutdown; the capture
   thread runs beside the loop of run *)

InitApp ==
    /\ EngineConstructed
    /\ CameraIdle
    /\ EffectsConstructed
    /\ app = AppConstructed
    /\ poseDetector = PoseDetectorConstructed
    /\ gestureDetector = GestureDetectorConstructed
    /\ env \in EnvSet
    /\ detection = NoDetection

\* main, line 22: Application::initialize; on failure main returns and
\* ~Application runs shutdown
AppInitialize ==
    /\ app.pc = "main"
    /\ \E windowOk \in BOOLEAN, rendererOk \in BOOLEAN, opened \in BOOLEAN,
          poseSessionOk \in BOOLEAN, handSessionOk \in BOOLEAN :
          LET cam == CameraCapture_initialize(camera, opened)
              pd == PoseDetector_initialize(poseDetector, env.poseModelFile,
                                            env.HAS_ONNXRUNTIME, poseSessionOk)
              gd == GestureDetector_initialize(gestureDetector, env.handModelFile,
                                               env.HAS_ONNXRUNTIME, handSessionOk)
              a == Application_initialize(app, windowOk, rendererOk, opened,
                                          pd.ret = "true", gd.ret = "true",
                                          GameEngine_initialize)
          IN  /\ app' = [a EXCEPT
                            !.pc = IF a.ret = "true" THEN "loop" ELSE "shutdown",
                            !.results = InitResults(a, windowOk, rendererOk, opened,
                                                    pd.ret = "true", gd.ret = "true",
                                                    GameEngine_initialize)]
              /\ camera' = IF a.m_camera THEN cam ELSE camera
              /\ capture' = IF a.m_camera /\ cam.m_thread = "joinable"
                            THEN [capture EXCEPT !.pc = "loop"] ELSE capture
              /\ consumer' = IF a.m_camera
                             THEN [consumer EXCEPT
                                      !.op = "initialize", !.ret = opened,
                                      !.life = IF opened THEN "initialized"
                                               ELSE "failed"]
                             ELSE consumer
              /\ poseDetector' = IF a.m_poseDetector THEN pd ELSE poseDetector
              /\ gestureDetector' = IF a.m_gestureDetector THEN gd
                                    ELSE gestureDetector
    /\ UNCHANGED << effectVars, heap, camLog, gameVars, env, detection >>

\* run, line 92: the test of the loop
AppLoop ==
    /\ app.pc = "loop"
    /\ app' = [app EXCEPT !.pc = IF app.m_running THEN "events" ELSE "shutdown"]
    /\ UNCHANGED << effectVars, camera, capture, consumer, heap, camLog, gameVars,
                    poseDetector, gestureDetector, env, detection >>

\* processEvents (lines 123-130); shouldClose is what the window reports
AppProcessEvents ==
    /\ app.pc = "events"
    /\ \E shouldClose \in BOOLEAN :
          app' = [app EXCEPT !.pc = "update", !.updated = FALSE,
                             !.m_running = IF shouldClose THEN FALSE ELSE @]
    /\ UNCHANGED << effectVars, camera, capture, consumer, heap, camLog, gameVars,
                    poseDetector, gestureDetector, env, detection >>

\* update, line 135: the call of getFrame takes the mutex
AppGetFrameLock ==
    /\ app.pc = "update"
    /\ CanLock(camera)
    /\ camera' = [camera EXCEPT !.m_frameMutex = "consumer"]
    /\ consumer' = [consumer EXCEPT !.pc = "getFrame", !.op = "getFrame"]
    /\ app' = [app EXCEPT !.pc = "getFrame"]
    /\ UNCHANGED << effectVars, capture, heap, camLog, gameVars,
                    poseDetector, gestureDetector, env, detection >>

\* update, line 135: getFrame returns; without a frame the tick goes on to
\* render
AppGetFrameCopy ==
    /\ app.pc = "getFrame"
    /\ LET r == getFrameCopy(camera, heap, consumer.out)
       IN  /\ heap' = r.heap
           /\ consumer' = [consumer EXCEPT
                              !.pc = "idle", !.ret = r.ret, !.out = r.out,
                              !.returned = IF r.ret /\ r.out # "none"
                                           THEN r.heap[r.out] ELSE @]
           /\ app' = [app EXCEPT !.pc = IF r.ret THEN "detect" ELSE "render"]
    /\ camera' = [camera EXCEPT !.m_frameMutex = "free"]
    /\ UNCHANGED << effectVars, capture, camLog, gameVars,
                    poseDetector, gestureDetector, env, detection >>

\* update, lines 136-162: the detectors, GameEngine::update and the upload
\* of the texture
AppUpdate ==
    /\ app.pc = "detect"
    /\ \E deltaTime \in AppDtSet, inferenceOk \in BOOLEAN :
          LET frame == tickFrame(heap, consumer.out, camera)
              persons == tickPersons(app, poseDetector, frame,
                                     env.HAS_ONNXRUNTIME, inferenceOk)
              gesture == tickGesture(app, gestureDetector, frame)
          IN  /\ UpdateWith(deltaTime, persons, gesture)
              /\ detection' = [ op |-> "Application::update", frame |-> frame,
                                persons |-> persons, inferenceOk |-> inferenceOk,
                                gesture |-> gesture ]
              /\ app' = [app EXCEPT !.pc = "render", !.updated = TRUE,
                                    !.texture = frame.pixels]
    /\ UNCHANGED << effectVars, camera, capture, consumer, heap, camLog,
                    poseDetector, gestureDetector, env >>

\* render (lines 166-195): the video texture goes to the screen
AppRender ==
    /\ app.pc = "render"
    /\ app' = [app EXCEPT !.pc = "loop", !.rendered = app.texture]
    /\ UNCHANGED << effectVars, camera, capture, consumer, heap, camLog, gameVars,
                    poseDetector, gestureDetector, env, detection >>

\* shutdown (lines 215-228) as far as the join of ~CameraCapture; without a
\* camera, all of it
AppShutdown ==
    /\ app.pc = "shutdown"
    /\ poseDetector' = IF app.m_poseDetector
                       THEN PoseDetector_shutdown(poseDetector) ELSE poseDetector
    /\ gestureDetector' = IF app.m_gestureDetector
                          THEN GestureDetector_shutdown(gestureDetector)
                          ELSE gestureDetector
    /\ IF app.m_camera
       THEN /\ camera' = shutdownSignal(camera)
            /\ consumer' = [consumer EXCEPT !.pc = "join", !.op = "destructor",
                                            !.shutdowns = @ + 1]
            /\ app' = [app EXCEPT !.pc = "join", !.m_running = FALSE,
                                  !.m_gameEngine = FALSE,
                                  !.m_gestureDetector = FALSE,
                                  !.m_poseDetector = FALSE]
       ELSE /\ UNCHANGED << camera, consumer >>
            /\ app' = [app EXCEPT !.pc = "done", !.m_running = FALSE,
                                  !.m_gameEngine = FALSE,
                                  !.m_gestureDetector = FALSE,
                                  !.m_poseDetector = FALSE,
                                  !.m_renderer = FALSE, !.m_window = FALSE]
    /\ UNCHANGED << effectVars, capture, heap, camLog, gameVars, env, detection >>

\* ~CameraCapture in shutdown: CameraCapture.cpp lines 46-48
AppJoin ==
    /\ app.pc = "join"
    /\ CanJoin(camera, capture)
    /\ camera' = shutdownJoin(camera)
    /\ consumer' = [consumer EXCEPT !.pc = "release"]
    /\ app' = [app EXCEPT !.pc = "release"]
    /\ UNCHANGED << effectVars, capture, heap, camLog, gameVars,
                    poseDetector, gestureDetector, env, detection >>

\* ~CameraCapture in shutdown: CameraCapture.cpp lines 50-56, then the renderer
\* and the window
AppRelease ==
    /\ app.pc = "release"
    /\ camera' = shutdownRelease(camera)
    /\ consumer' = [consumer EXCEPT !.pc = "idle", !.life = "destroyed"]
    /\ app' = [app EXCEPT !.pc = "done", !.m_camera = FALSE,
                          !.m_renderer = FALSE, !.m_window = FALSE]
    /\ UNCHANGED << effectVars, capture, heap, camLog, gameVars,
                    poseDetector, gestureDetector, env, detection >>

NextApp ==
    \/ CaptureLoop \/ CaptureRead \/ CaptureLock
    \/ CaptureCloneFirst \/ CaptureCloneSecond \/ CaptureSleep
    \/ AppInitialize \/ AppLoop \/ AppProcessEvents
    \/ AppGetFrameLock \/ AppGetFrameCopy \/ AppUpdate \/ AppRender
    \/ AppShutdown \/ AppJoin \/ AppRelease

SpecApp == InitApp /\ [][NextApp]_vars

\* the steps of the thread of main
AppThread ==
    \/ AppInitialize \/ AppLoop \/ AppProcessEvents
    \/ AppGetFrameLock \/ AppGetFrameCopy \/ AppUpdate \/ AppRender
    \/ AppShutdown \/ AppJoin \/ AppRelease

\* the scheduler runs both threads
SpecAppLive == SpecApp /\ WF_vars(CaptureThread) /\ WF_vars(AppThread)

----------------------------------------------------------------------------
(* Properties of the state machine of GameEngine *)

\* C1: an update call made in Calibrating moves to Playing if and only if the
\* persons of that call are non-empty and its gesture has the OK flag on the
\* left or the right hand; otherwise the state stays Calibrating and no item
\* is spawned.
C1_StartNeedsPersonAndOk ==
    [][ (m_state = "Calibrating" /\ call'.op = "update") =>
          LET ok == call'.gesture.leftHand.isOkGesture
                      \/ call'.gesture.rightHand.isOkGesture
              go == m_detectedPersons' # << >> /\ ok
          IN  /\ (m_state' = "Playing") <=> go
              /\ ~go => /\ m_state' = "Calibrating"
                        /\ m_fallingItems' = m_fallingItems
                        /\ m_nextItemId' = m_nextItemId ]_vars

\* a game was started by an update call with a person and a left-hand OK
C1_Witness ==
    /\ m_state = "Playing"
    /\ call.op = "update" /\ call.from = "Calibrating"
    /\ m_detectedPersons # << >>
    /\ call.gesture.leftHand.isOkGesture

\* C2: right after the update call that takes the engine from Calibrating to
\* Playing both scores and both combo counts are 0, game_time is 0,
\* remaining_time is 45 s, the phase is Warmup and the item list is empty; the
\* call advanced no time and spawned no item.
C2_StartResets ==
    (call.op = "update" /\ call.from = "Calibrating" /\ m_state = "Playing") =>
        /\ m_p1Score = 0 /\ m_p2Score = 0
        /\ m_p1Combo = 0 /\ m_p2Combo = 0
        /\ m_gameTime = 0
        /\ m_remainingTime = Sec(45)
        /\ m_phase = "Warmup"
        /\ m_fallingItems = << >>
        /\ m_nextItemId = 0

\* a game was started by an update call with a right-hand OK
C2_Witness ==
    /\ call.op = "update" /\ call.from = "Calibrating" /\ m_state = "Playing"
    /\ call.gesture.rightHand.isOkGesture
    /\ m_remainingTime = Sec(45)

\* C3: an update(dt) call made while Playing moves to GameOver exactly when
\* remaining_time - dt <= 0 and otherwise stays Playing; game_time accumulates
\* the dt of the Playing ticks, and the game is over exactly from the tick at
\* which this accumulated time reaches 45 s.
C3_GameOverAt45 ==
    [][ (m_state = "Playing" /\ call'.op = "update") =>
          /\ m_state' \in {"Playing", "GameOver"}
          /\ (m_state' = "GameOver") <=> (m_remainingTime - call'.dt <= 0)
          /\ m_gameTime' = m_gameTime + call'.dt
          /\ m_gameTime < Sec(45)
          /\ (m_state' = "GameOver") <=> (m_gameTime' >= Sec(45)) ]_vars

\* the game ended on the tick at which the accumulated time is exactly 45 s
C3_Witness ==
    /\ m_state = "GameOver"
    /\ call.op = "update" /\ call.from = "Playing"
    /\ call.dt = Sec(15)
    /\ m_gameTime = Sec(45)

\* C4: an update call made in GameOver leaves the state, remaining_time,
\* game_time, both scores, both combo counts, the phase and the item list
\* unchanged.
C4_GameOverFrozen ==
    [][ (m_state = "GameOver" /\ call'.op = "update") =>
          /\ m_state' = m_state
          /\ m_remainingTime' = m_remainingTime
          /\ m_gameTime' = m_gameTime
          /\ m_p1Score' = m_p1Score /\ m_p2Score' = m_p2Score
          /\ m_p1Combo' = m_p1Combo /\ m_p2Combo' = m_p2Combo
          /\ m_phase' = m_phase
          /\ m_fallingItems' = m_fallingItems
          /\ m_nextItemId' = m_nextItemId ]_vars

\* update was called in GameOver with a person present, after a game with a score
C4_Witness ==
    /\ m_state = "GameOver"
    /\ call.op = "update" /\ call.from = "GameOver"
    /\ m_detectedPersons # << >>
    /\ m_p1Score # 0

----------------------------------------------------------------------------
(* Properties of the scoring of captures *)

\* the sum of the score changes of a list of CollisionResults
RECURSIVE SumScoreChange(_)
SumScoreChange(results) ==
    IF results = << >> THEN 0
    ELSE Head(results).scoreChange + SumScoreChange(Tail(results))

\* a Playing tick of update that ran to its end
PlayingTick ==
    m_state = "Playing" /\ call'.op = "update" /\ m_state' = "Playing"

\* the item a CollisionResult is about, as detectCollisions left it
CapturedItem(items, result) ==
    CHOOSE item \in { items[i] : i \in DOMAIN items } : item.id = result.itemId

\* the wrist a CollisionResult is about
CapturingHand(persons, result) ==
    LET person == CHOOSE q \in { persons[i] : i \in DOMAIN persons } :
                      q.id = result.personId
    IN  IF result.isLeftHand THEN person.leftHand ELSE person.rightHand

\* C5: with two persons detected, captures made by the second person change
\* player 2's score and combo and leave player 1's score and combo as they are.
C5_CaptureCreditsOwner ==
    [][ ( /\ PlayingTick
          /\ Len(m_detectedPersons') = 2
          /\ collisions' # << >>
          /\ \A i \in DOMAIN collisions' :
                collisions'[i].personId = m_detectedPersons'[2].id ) =>
          /\ m_p2Score' = m_p2Score + SumScoreChange(collisions')
          /\ m_p1Score' = m_p1Score
          /\ m_p1Combo' \in {m_p1Combo, 0}
          /\ (\E i \in DOMAIN collisions' : collisions'[i].scoreChange > 0)
                => m_p2Combo' >= 1 ]_vars

\* C6: a single capture with positive score_change adds the item's base score
\* times combo_multiplier(combo count) to the score of the player, the
\* multiplier being 3.0 from 20, 2.0 from 10, 1.5 from 5, 1.2 from 2, else 1.0.
C6_ComboMultiplierApplied ==
    [][ ( /\ PlayingTick
          /\ Len(m_detectedPersons') = 1
          /\ Len(collisions') = 1
          /\ collisions'[1].scoreChange > 0 ) =>
          LET count == m_p1Combo'
              tenths == IF count >= 20 THEN 30
                        ELSE IF count >= 10 THEN 20
                        ELSE IF count >= 5 THEN 15
                        ELSE IF count >= 2 THEN 12
                        ELSE 10
          IN  10 * (m_p1Score' - m_p1Score) = collisions'[1].scoreChange * tenths ]_vars

\* C7: the capture of a bomb lowers the capturing player's score by 30, does
\* not increment that player's combo and resets it to 0.
C7_BombResetsCombo ==
    [][ ( /\ PlayingTick
          /\ Len(m_detectedPersons') = 1
          /\ Len(collisions') = 1
          /\ collisions'[1].scoreChange < 0 ) =>
          /\ m_p1Score' = m_p1Score - 30
          /\ m_p1Combo' = 0 ]_vars

\* C8: a capture with the hand centre at most 30 px from the item centre adds
\* 5 points on top of the item's score_change; a capture from further away
\* adds the score_change alone.
C8_PerfectCaptureBonus ==
    [][ ( /\ PlayingTick
          /\ Len(m_detectedPersons') = 1
          /\ Len(collisions') = 1 ) =>
          LET result == collisions'[1]
              item == CapturedItem(collidedItems', result)
              hand == CapturingHand(m_detectedPersons', result)
              dx == hand.x - item.x
              dy == hand.y - item.y
              perfect == dx * dx + dy * dy <= Px(30) * Px(30)
          IN  m_p1Score' - m_p1Score =
                 result.scoreChange + (IF perfect THEN 5 ELSE 0) ]_vars

\* the combo count and the combo timer of the player that person k plays
ComboOf(k, p1Combo, p2Combo) == IF k = 0 THEN p1Combo ELSE p2Combo
ComboTimerOf(k, p1Timer, p2Timer) == IF k = 0 THEN p1Timer ELSE p2Timer

\* what C9 says of the positive captures of person k
ComboGrows(k) ==
    /\ ( /\ PlayingTick
         /\ collisions' # << >>
         /\ \A i \in DOMAIN collisions' :
               collisions'[i].personId = k /\ collisions'[i].scoreChange > 0 ) =>
         /\ ComboTimerOf(k, m_p1ComboTimer', m_p2ComboTimer') = Sec(2)
         /\ ComboOf(k, m_p1Combo', m_p2Combo') >= 1
         /\ (lastCapture[k] >= 0 /\ m_gameTime' - lastCapture[k] < Sec(2)) =>
               ComboOf(k, m_p1Combo', m_p2Combo')
                  = ComboOf(k, m_p1Combo, m_p2Combo) + Len(collisions')
    /\ ( /\ m_state' \in {"Playing", "Paused"}
         /\ lastCapture'[k] >= 0
         /\ m_gameTime' - lastCapture'[k] < Sec(2) ) =>
         ComboOf(k, m_p1Combo', m_p2Combo') >= 1

\* C9: while the positive captures of one player follow each other by less
\* than 2 s of game time, that player's combo count grows by one with each
\* capture and is not reset between them, and each positive capture sets that
\* player's combo timer to 2 s.
C9_ComboStream == [][ \A k \in PersonIds : ComboGrows(k) ]_vars

\* the same for the captures of the first person alone
C9_ComboStreamFirstPerson == [][ ComboGrows(0) ]_vars

----------------------------------------------------------------------------
(* Properties of detectCollisions *)

\* C10: detectCollisions hits an active item exactly when a valid wrist is at
\* a squared distance <= (50 px + size/2)^2 from it; a hit item becomes
\* inactive and yields one result with its id, the person's id, the hand side
\* and the configured score of its type; other items stay as they are and
\* yield no result.
C10_CollisionRule ==
    [][ call'.op = "detectCollisions" =>
          LET items == m_fallingItems
              persons == m_detectedPersons
              Within(hand, item) ==
                  /\ hand.valid
                  /\ (hand.x - item.x) * (hand.x - item.x)
                       + (hand.y - item.y) * (hand.y - item.y)
                     <= (Px(50) + item.size \div 2) * (Px(50) + item.size \div 2)
              Hit(item) ==
                  /\ item.active
                  /\ \E p \in DOMAIN persons :
                        \/ Within(persons[p].leftHand, item)
                        \/ Within(persons[p].rightHand, item)
          IN  /\ Len(m_fallingItems') = Len(items)
              /\ \A i \in DOMAIN items :
                    /\ m_fallingItems'[i] =
                          [items[i] EXCEPT !.active = items[i].active /\ ~Hit(items[i])]
                    /\ Cardinality({ j \in DOMAIN collisions' :
                                        collisions'[j].itemId = items[i].id })
                          = IF Hit(items[i]) THEN 1 ELSE 0
              /\ \A j \in DOMAIN collisions' :
                    \E i \in DOMAIN items, p \in DOMAIN persons :
                        /\ collisions'[j].itemId = items[i].id
                        /\ collisions'[j].personId = persons[p].id
                        /\ collisions'[j].scoreChange = ITEM_CONFIGS[items[i].type].score
                        /\ Within(IF collisions'[j].isLeftHand
                                  THEN persons[p].leftHand
                                  ELSE persons[p].rightHand, items[i]) ]_vars

\* a wrist exactly on the collision boundary hit an item, next to an item
\* that was inactive before the call and yielded nothing
C10_Witness ==
    /\ call.op = "detectCollisions"
    /\ m_detectedPersons = << Person(0, HandEdge, HandNone) >>
    /\ Len(collisions) = 1
    /\ \E i \in DOMAIN m_fallingItems :
          /\ ~m_fallingItems[i].active
          /\ \A j \in DOMAIN collisions : collisions[j].itemId # m_fallingItems[i].id

\* C11: a call of detectCollisions that follows another call on the same items
\* with the same persons returns no result and changes no item, so the results
\* of all calls together are those of the first call.
C11_DetectIdempotent ==
    [][ (call.op = "detectCollisions" /\ call'.op = "detectCollisions") =>
          /\ collisions' = << >>
          /\ m_fallingItems' = m_fallingItems
          /\ call'.earlier \o collisions' = call.earlier \o collisions ]_vars

\* a second call returned nothing after a first call that had returned a
\* capture
C11_Witness ==
    /\ call.op = "detectCollisions"
    /\ call.earlier # << >>
    /\ collisions = << >>
    /\ \E i \in DOMAIN m_fallingItems : ~m_fallingItems[i].active

----------------------------------------------------------------------------
(* Properties of the spawner, the clock and the phases *)

\* C12: in a Playing tick the spawn timer is advanced by dt and then, while it
\* is at least one spawn interval (1/spawn_rate of the current phase), one
\* item is spawned and one interval is subtracted: the tick spawns as many
\* items as whole intervals have elapsed and the remainder carries over.
C12_SpawnWholeIntervals ==
    [][ PlayingTick =>
          LET elapsed == m_spawnTimer + call'.dt
              interval == Sec(1) \div PHASE_CONFIGS[m_phase'].spawnRate
          IN  /\ m_nextItemId' - m_nextItemId = elapsed \div interval
              /\ m_spawnTimer' = elapsed % interval ]_vars

\* C13: remaining_time is between 0 and 45 s in every state, after every
\* update call made while Playing in particular, and it is exactly 0 once a
\* tick has ended the game.
C13_RemainingTimeInRange ==
    /\ 0 <= m_remainingTime
    /\ m_remainingTime <= Sec(45)
    /\ m_state = "GameOver" => m_remainingTime = 0

\* a tick longer than the time left ended the game: remaining_time - dt was
\* negative and has been clamped
C13_Witness ==
    /\ m_state = "GameOver"
    /\ call.op = "update" /\ call.from = "Playing"
    /\ m_gameTime > Sec(45)
    /\ m_remainingTime = 0

\* C14: whenever the state is Playing the phase is Warmup exactly when
\* game_time < 15 s, Rush exactly when 15 s <= game_time < 30 s and Finale
\* exactly when game_time >= 30 s; and a Playing tick spawns by the interval
\* of the phase of the new game_time and gives the spawned item the fall speed
\* of that phase (times the item's multiplier and a variation of 0.8 to 1.2).
C14_PhaseFollowsGameTime ==
    [][ LET now == IF m_gameTime' < Sec(15) THEN "Warmup"
                   ELSE IF m_gameTime' < Sec(30) THEN "Rush"
                   ELSE "Finale"
            spawned == m_nextItemId' > m_nextItemId
        IN  /\ m_state' = "Playing" => m_phase' = now
            /\ PlayingTick =>
                  /\ spawned <=>
                        m_spawnTimer + call'.dt
                          >= Sec(1) \div PHASE_CONFIGS[now].spawnRate
                  /\ spawned =>
                        \E i \in DOMAIN collidedItems' :
                           LET item == collidedItems'[i]
                               base == Px(PHASE_CONFIGS[now].fallSpeed)
                                         * ITEM_CONFIGS[item.type].speedMultiplier
                           IN  /\ item.id = m_nextItemId
                               /\ 8 * base <= 100 * item.speed
                               /\ 100 * item.speed <= 12 * base ]_vars

\* the first tick of a game took game_time from 0 to exactly 15 s and spawned
\* an item
C14_Witness ==
    /\ m_state = "Playing"
    /\ call.op = "update" /\ call.from = "Playing"
    /\ call.dt = Sec(15)
    /\ m_gameTime = Sec(15)
    /\ m_phase = "Rush"
    /\ m_nextItemId = 1
    /\ Len(collidedItems) = 1

----------------------------------------------------------------------------
(* Properties of the item list *)

\* C15: after every Playing tick every item of the list has
\* -100 px <= y <= screen_h + 100 px; in the tick an item either was in the
\* list before and has not moved up, or it was spawned at y = -50 px and has
\* fallen for this tick; and an item is kept by the tick exactly when it was
\* not captured and its y is at most screen_h + 100 px, so that an item at
\* exactly screen_h + 100 px stays and one beyond it is removed in the same
\* tick.
C15_ItemsStayInBand ==
    [][ PlayingTick =>
          /\ \A i \in DOMAIN m_fallingItems' :
                /\ 0 - Px(100) <= m_fallingItems'[i].y
                /\ m_fallingItems'[i].y <= m_height + Px(100)
          /\ \A j \in DOMAIN collidedItems' :
                LET item == collidedItems'[j]
                IN  /\ \/ \E i \in DOMAIN m_fallingItems :
                              /\ m_fallingItems[i].id = item.id
                              /\ item.y >= m_fallingItems[i].y
                       \/ /\ item.id = m_nextItemId
                          /\ m_nextItemId' = m_nextItemId + 1
                          /\ item.y = (item.speed * call'.dt) \div Sec(1) - Px(50)
                    /\ (item.active /\ item.y <= m_height + Px(100))
                          <=> \E i \in DOMAIN m_fallingItems' :
                                  m_fallingItems'[i] = item ]_vars

\* a tick has brought an item to exactly screen_h + 100 px and kept it
C15_Witness ==
    /\ m_state = "Playing"
    /\ call.op = "update" /\ call.from = "Playing"
    /\ call.dt > 0
    /\ \E i \in DOMAIN m_fallingItems : m_fallingItems[i].y = m_height + Px(100)

\* a tick has removed an item that had fallen below screen_h + 100 px
C15_WitnessRemoved ==
    /\ m_state = "Playing"
    /\ call.op = "update" /\ call.from = "Playing"
    /\ \E j \in DOMAIN collidedItems :
          /\ collidedItems[j].active
          /\ collidedItems[j].y > m_height + Px(100)
          /\ \A i \in DOMAIN m_fallingItems : m_fallingItems[i].id # collidedItems[j].id

\* C16: in every reachable state the ids of the items of the item list are
\* pairwise distinct.
C16_IdsDistinctInList ==
    \A i, j \in DOMAIN m_fallingItems :
        m_fallingItems[i].id = m_fallingItems[j].id => i = j

\* two items are falling, the later one spawned after the earlier one had
\* fallen for a while
C16_Witness ==
    /\ m_state = "Playing"
    /\ Len(m_fallingItems) = 2
    /\ m_fallingItems[1].y > m_fallingItems[2].y
    /\ m_nextItemId = 2

\* the ids given to the items that the update call of this step has spawned
NewIds ==
    { collidedItems'[j].id :
        j \in Len(m_fallingItems) + 1 .. Len(collidedItems') }

\* C17: item ids are unique over the whole lifetime of the engine and are
\* handed out in strictly increasing order: the id of an item spawned by a
\* tick is greater than every id the engine has handed out before, in this
\* game or in a game before a reset() or a restart.
C17_IdsUniqueForLife ==
    [][ PlayingTick =>
          \A id \in NewIds : \A old \in spawnedIds.life : old < id ]_vars

\* C17, within one game: the id of an item spawned by a tick is greater than
\* every id handed out since the latest reset() (which startGame calls), and
\* the first id after a reset() is 0 again, whatever ids the engine handed
\* out in earlier games.
C17_IdsUniqueInGame ==
    [][ PlayingTick =>
          \A id \in NewIds :
              /\ \A old \in spawnedIds.game : old < id
              /\ spawnedIds.game = {} => id = 0 ]_vars

\* the second game of the engine has handed out id 0 again and not yet id 1,
\* which an item of the first game had
C17_Witness ==
    /\ m_state = "Playing"
    /\ call.op = "update" /\ call.from = "Playing"
    /\ spawnedIds.game = {0}
    /\ spawnedIds.life = {0, 1}
    /\ \E j \in DOMAIN collidedItems : collidedItems[j].id = 0

----------------------------------------------------------------------------
(* Properties of the combo timers, of pause and of reset *)

\* C18: whenever the state is Playing, a player whose combo timer is <= 0 has
\* combo count 0; a combo count is non-zero only while its timer is positive.
C18_ExpiredTimerNoCombo ==
    m_state = "Playing" =>
        /\ m_p1ComboTimer <= 0 => m_p1Combo = 0
        /\ m_p2ComboTimer <= 0 => m_p2Combo = 0
        /\ m_p1Combo # 0 => m_p1ComboTimer > 0
        /\ m_p2Combo # 0 => m_p2ComboTimer > 0

\* player 1 had a combo in this game and a later tick found its timer run
\* out and set the count back to 0
C18_Witness ==
    /\ m_state = "Playing"
    /\ call.op = "update" /\ call.from = "Playing"
    /\ \E k \in PersonIds : lastCapture[k] >= 0 /\ lastCapture[k] < m_gameTime
    /\ m_p1ComboTimer <= 0
    /\ m_p1Combo = 0

\* C19: togglePause takes Playing to Paused and Paused to Playing, leaves
\* every other state as it is, and changes nothing but the state; an update
\* call made while Paused changes neither the state, game_time,
\* remaining_time, the scores, the combo counts, the combo timers, the spawn
\* timer, the phase, the items nor the id counter. So the game resumed after
\* a pause is the game that was paused.
C19_PauseFreezes ==
    [][ /\ call'.op = "togglePause" =>
              /\ m_state' = IF m_state = "Playing" THEN "Paused"
                            ELSE IF m_state = "Paused" THEN "Playing"
                            ELSE m_state
              /\ UNCHANGED << m_phase, m_p1Score, m_p2Score, m_p1Combo, m_p2Combo,
                              m_p1ComboTimer, m_p2ComboTimer, m_gameTime,
                              m_remainingTime, m_spawnTimer, m_fallingItems,
                              m_nextItemId >>
        /\ (m_state = "Paused" /\ call'.op = "update") =>
              UNCHANGED << m_state, m_phase, m_p1Score, m_p2Score, m_p1Combo,
                           m_p2Combo, m_p1ComboTimer, m_p2ComboTimer, m_gameTime,
                           m_remainingTime, m_spawnTimer, m_fallingItems,
                           m_nextItemId >> ]_vars

\* update was called while Paused in the middle of a game with an item
\* falling, a combo running and a person in front of the camera
C19_Witness ==
    /\ m_state = "Paused"
    /\ call.op = "update" /\ call.from = "Paused"
    /\ m_gameTime > 0
    /\ m_fallingItems # << >>
    /\ m_p1Combo > 0 /\ m_p1ComboTimer > 0
    /\ m_detectedPersons # << >>

\* C20: right after reset() called in GameOver the state is Calibrating, both
\* scores, both combo counts, both combo timers, game_time and the spawn timer
\* are 0, remaining_time is 45 s, the phase is Warmup and the item list is
\* empty.
C20_ResetFromGameOver ==
    (call.op = "reset" /\ call.from = "GameOver") =>
        /\ m_state = "Calibrating"
        /\ m_p1Score = 0 /\ m_p2Score = 0
        /\ m_p1Combo = 0 /\ m_p2Combo = 0
        /\ m_p1ComboTimer = 0 /\ m_p2ComboTimer = 0
        /\ m_gameTime = 0
        /\ m_spawnTimer = 0
        /\ m_remainingTime = Sec(45)
        /\ m_phase = "Warmup"
        /\ m_fallingItems = << >>

\* reset() was called in GameOver after a game that had spawned an item
C20_Witness ==
    /\ call.op = "reset" /\ call.from = "GameOver"
    /\ m_state = "Calibrating"
    /\ spawnedIds.life # {}

----------------------------------------------------------------------------
(* Properties of CameraCapture *)

\* the consumer holds a frame that getFrame has given it
HoldsFrame == consumer.out # "none"

\* a getFrame call returns in this step
GetFrameReturns == consumer.pc = "getFrame" /\ consumer'.pc = "idle"

\* a shutdown() call has returned
ShutdownReturned == consumer.life \in {"shutdown", "destroyed"}

\* C21: the capture thread's write of the slot and getFrame's copy never
\* overlap; a frame that getFrame has returned is one whole picture that the
\* device has delivered, never two halves of different pictures; and its
\* pixels stay as they were when getFrame returned, whatever the capture
\* thread writes later.
C21_FrameCopyExclusive ==
    /\ ~(capture.pc \in {"clone", "assign"} /\ consumer.pc = "getFrame")
    /\ HoldsFrame =>
          /\ \E n \in 1 .. camLog.reads : consumer.returned = Picture(n)
          /\ heap[consumer.out] = consumer.returned

\* the consumer still holds picture 1 unchanged after the capture thread has
\* published picture 2
C21_Witness ==
    /\ consumer.pc = "idle" /\ consumer.op = "getFrame" /\ consumer.ret
    /\ heap[consumer.out] = Picture(1)
    /\ camLog.published = 2
    /\ heap[camera.m_currentFrame] = Picture(2)

\* C22: a getFrame call returns false and leaves the caller's frame as it is
\* when the slot is empty, and returns true with a copy of the slot's pixels
\* otherwise; the slot never becomes empty again, so once a frame has been
\* published every getFrame call returns true.
C22_GetFrameNeverWaits ==
    [][ /\ GetFrameReturns =>
              LET empty == camera.m_currentFrame = "none"
              IN  /\ consumer'.ret = ~empty
                  /\ empty => consumer'.out = consumer.out /\ heap' = heap
                  /\ ~empty => /\ consumer'.out # "none"
                               /\ heap'[consumer'.out] = heap[camera.m_currentFrame]
                  /\ camLog.published > 0 => consumer'.ret
        /\ camera.m_currentFrame # "none" => camera'.m_currentFrame # "none"
        /\ camLog.published > 0 => camera.m_currentFrame # "none" ]_vars

\* getFrame returned false although the thread had already read a picture,
\* which it had not published yet
C22_Witness ==
    /\ consumer.pc = "idle" /\ consumer.op = "getFrame" /\ ~consumer.ret
    /\ consumer.out = "none"
    /\ camLog.reads = 1 /\ camLog.published = 0
    /\ capture.pc = "lock"

\* C23: the write that follows a successful read puts the picture of that
\* read into the slot, over the picture before; a getFrame call that returns
\* true returns the picture published last before its copy, so a picture
\* overwritten earlier is not returned any more; and the pictures that
\* successive calls return never go back in the order of the reads.
C23_SingleSlotLatest ==
    [][ /\ (capture.pc = "assign" /\ capture'.pc = "loop") =>
              /\ heap'[camera'.m_currentFrame] = Picture(camLog.reads)
              /\ camLog'.published = camLog.reads
              /\ camLog'.published > camLog.published
        /\ (GetFrameReturns /\ consumer'.ret) =>
              /\ consumer'.returned = Picture(camLog.published)
              /\ consumer'.returned[1] >= consumer.returned[1] ]_vars

\* getFrame has returned picture 2 after picture 1
C23_Witness ==
    /\ consumer.pc = "idle" /\ consumer.op = "getFrame" /\ consumer.ret
    /\ consumer.returned = Picture(2)
    /\ camLog.published = 2

\* the fields of CameraCapture other than the mutex
Settled(cam) == [cam EXCEPT !.m_frameMutex = "free"]

\* C24: shutdown() clears the running flag; the capture thread that finds the
\* flag cleared at the head of its loop ends; once a shutdown() call has
\* returned the flag is false, the thread has ended and is joined, the device
\* is released, and no write to the slot happens any more; a further
\* shutdown() call, such as the destructor's, changes nothing; and every
\* shutdown() call that is waiting for the thread returns, as long as the
\* reads of the device return.
C24_ShutdownStopsThread ==
    /\ [](ShutdownReturned =>
            /\ ~camera.m_running
            /\ capture.pc \in {"none", "ended"}
            /\ camera.m_thread # "joinable"
            /\ camera.m_capture = "closed" /\ ~camera.m_isOpened)
    /\ [][ /\ (consumer.pc = "idle" /\ consumer'.pc = "join") => ~camera'.m_running
           /\ (capture.pc = "loop" /\ ~camera.m_running /\ capture' # capture) =>
                 capture'.pc = "ended"
           /\ ShutdownReturned =>
                 /\ Settled(camera') = Settled(camera)
                 /\ heap'["S"] = heap["S"]
                 /\ camLog' = camLog ]_vars
    /\ (consumer.pc = "join") ~> (consumer.pc = "idle" /\ ShutdownReturned)

\* the destructor has run after an explicit shutdown() of a camera whose
\* thread had published a picture
C24_Witness ==
    /\ consumer.pc = "idle" /\ consumer.life = "destroyed"
    /\ consumer.shutdowns >= 2
    /\ camLog.published >= 1
    /\ capture.pc = "ended"

\* C25: a failed read leaves the slot as it is and sends the thread to its
\* sleep, from which it goes back to the head of the loop; the thread ends
\* only at the head of the loop with the running flag cleared; and a
\* successful read, also one that follows failed reads, is published: the
\* thread takes the mutex, writes and the slot then holds that picture.
C25_ReadFailureAbsorbed ==
    [][ /\ (capture.pc = "read" /\ capture' # capture) =>
              IF capture'.prevFailed
              THEN /\ capture'.pc = "sleep"
                   /\ camera' = camera /\ heap'["S"] = heap["S"]
                   /\ camLog' = camLog
              ELSE /\ capture'.pc = "lock"
                   /\ heap'[capture'.frame] = Picture(camLog'.reads)
        /\ (capture.pc = "sleep" /\ capture' # capture) => capture'.pc = "loop"
        /\ (capture.pc = "lock" /\ capture' # capture) => capture'.pc = "clone"
        /\ (capture.pc = "clone" /\ capture' # capture) => capture'.pc = "assign"
        /\ (capture.pc = "assign" /\ capture' # capture) =>
              /\ capture'.pc = "loop"
              /\ heap'[camera'.m_currentFrame] = Picture(camLog.reads)
        /\ (capture.pc # "ended" /\ capture'.pc = "ended") =>
              capture.pc = "loop" /\ ~camera.m_running ]_vars

\* the picture of a read that followed a failed read is in the slot, over an
\* earlier picture
C25_Witness ==
    /\ capture.pc = "loop"
    /\ capture.retryOk
    /\ camLog.published = 2
    /\ heap[camera.m_currentFrame] = Picture(2)

----------------------------------------------------------------------------
(* Properties of Application and of the detectors *)

\* C26: Application::initialize returns false, with m_running left false and
\* no component after the failing one constructed, exactly when the window,
\* the renderer, the camera or the game engine fails to initialize; what the
\* pose detector and the gesture detector return has no part in it.  When the
\* camera cannot be opened, no capture thread is started.
C26_InitializeFailsOnFatal ==
    [][ (app.pc = "main" /\ app'.pc # "main") =>
          LET a == app'
              r == app'.results
              later == a.m_poseDetector \/ a.m_gestureDetector \/ a.m_gameEngine
          IN  /\ a.ret \in {"true", "false"}
              /\ (a.ret = "false") <=>
                     \/ r.window = "false" \/ r.renderer = "false"
                     \/ r.camera = "false" \/ r.engine = "false"
              /\ a.ret = "false" => ~a.m_running
              /\ a.ret = "true" => a.m_running
              /\ r.window = "false" => ~a.m_renderer /\ ~a.m_camera /\ ~later
              /\ r.renderer = "false" => ~a.m_camera /\ ~later
              /\ r.camera = "false" =>
                     /\ ~later
                     /\ capture'.pc = "none"
                     /\ camera'.m_thread = "none" /\ ~camera'.m_running
       ]_vars

\* initialize has returned true although the pose detector did not initialize
C26_Witness ==
    /\ app.ret = "true" /\ app.m_running
    /\ app.results.pose = "false" /\ app.results.gesture = "true"

\* initialize has returned false because the camera could not be opened
C26_WitnessCamera ==
    /\ app.ret = "false" /\ app.results.camera = "false"
    /\ capture.pc = "none"

\* C27: while the pose model file is absent, PoseDetector::initialize never
\* returns true, isInitialized() stays false, and every detect call returns
\* an empty list of persons, whatever the frame.
C27_PoseModelAbsent ==
    ~env.poseModelFile =>
        /\ poseDetector.ret # "true"
        /\ ~poseDetector.m_initialized
        /\ detection.op = "PoseDetector::detect" => detection.persons = << >>

\* initialize has returned false for want of the file, and detect has then
\* been called on a frame in which the network would see a person
C27_Witness ==
    /\ ~env.poseModelFile /\ env.HAS_ONNXRUNTIME
    /\ poseDetector.ret = "false"
    /\ detection.op = "PoseDetector::detect"
    /\ detection.frame.output = OutputPerson /\ detection.inferenceOk
    /\ detection.persons = << >>

\* C30: every GestureResult returned by GestureDetector::detect that has the
\* OK flag on the left or the right hand has the detected flag on at least
\* one hand.
C30_OkImpliesDetected ==
    detection.op = "GestureDetector::detect" =>
        (anyOkGesture(detection.gesture) =>
            detection.gesture.leftHand.detected
              \/ detection.gesture.rightHand.detected)

\* the heuristic has reported the OK gesture on a frame of several contours
C30_Witness ==
    /\ detection.op = "GestureDetector::detect"
    /\ Len(detection.frame.contours) >= 2
    /\ anyOkGesture(detection.gesture)

\* of two contours in the same half the second, not OK, has overwritten the
\* flag of the first
C30_WitnessOverwritten ==
    /\ detection.op = "GestureDetector::detect"
    /\ detection.frame.contours
          = << Contour(9000, 100, 100, 100, 2), Contour(8000, 200, 100, 120, 0) >>
    /\ detection.gesture.rightHand = HandGesture(TRUE, FALSE)
    /\ detection.gesture.leftHand = HandGesture(FALSE, FALSE)

\* a tick of run has handed GameEngine::update a gesture with the OK flag
OkReported ==
    detection.op = "Application::update" /\ anyOkGesture(detection.gesture)

\* C28: with neither model file present, a run in which some tick's heuristic
\* reports the OK gesture is a run in which the simulation gets to Playing.
C28_HeuristicOkStartsGame ==
    (~env.poseModelFile /\ ~env.handModelFile /\ <>OkReported)
        => <>(m_state = "Playing")

\* without the pose model the simulation stays in Calibrating
C28_StaysCalibrating ==
    ~env.poseModelFile => m_state = "Calibrating"

\* the steps of a tick of run
UpdateStep == app.pc = "detect" /\ app'.pc = "render"
RenderStep == app.pc = "render" /\ app'.pc = "loop"

\* C29: in a tick of run whose getFrame returned a frame, both detectors run
\* on that snapshot, GameEngine::update gets the persons and the gesture
\* computed from it, the same pixels become the video texture, and render
\* comes after the update and shows them.  Between getFrame and the end of the
\* tick the snapshot does not change, whatever the capture thread publishes,
\* and the engine is updated at no other step.
C29_TickUsesOneSnapshot ==
    [][ LET frame == FrameOf(consumer.returned)
        IN  /\ UpdateStep =>
                  /\ consumer.ret
                  /\ detection'.frame = frame
                  /\ detection'.persons
                        = tickPersons(app, poseDetector, frame,
                                      env.HAS_ONNXRUNTIME, detection'.inferenceOk)
                  /\ detection'.gesture = tickGesture(app, gestureDetector, frame)
                  /\ call'.op = "update"
                  /\ m_detectedPersons' = detection'.persons
                  /\ m_state = "Calibrating" => call'.gesture = detection'.gesture
                  /\ app'.texture = consumer.returned
            /\ RenderStep =>
                  /\ consumer.ret <=> app.updated
                  /\ consumer.ret => app'.rendered = consumer.returned
                  /\ UNCHANGED gameVars
            /\ app.pc \in {"detect", "render"} =>
                  consumer'.returned = consumer.returned
            /\ ~UpdateStep => UNCHANGED gameVars
      ]_vars

\* update has run on the frame of the first read although the capture thread
\* has published the second since this tick's getFrame
C29_Witness ==
    /\ app.pc = "render" /\ app.updated
    /\ detection.op = "Application::update"
    /\ detection.frame.pixels = Picture(1)
    /\ app.texture = Picture(1)
    /\ camLog.published = 2
    /\ heap[camera.m_currentFrame] = Picture(2)

----------------------------------------------------------------------------
(* Properties of the tie-break of detectCollisions *)

\* a valid wrist within the collision radius of an item
WristOver(hand, item) ==
    /\ hand.valid
    /\ (hand.x - item.x) * (hand.x - item.x) + (hand.y - item.y) * (hand.y - item.y)
         <= (Px(50) + item.size \div 2) * (Px(50) + item.size \div 2)

\* the positions in persons of those with a wrist over the item
Hitters(persons, item) ==
    { p \in DOMAIN persons :
        WristOver(persons[p].leftHand, item) \/ WristOver(persons[p].rightHand, item) }

C31_WitnessBothWrists ==
    /\ call.op = "detectCollisions"
    /\ m_detectedPersons = << Person(0, HandNear, HandNear) >>
    /\ \E j \in DOMAIN collisions : collisions[j].isLeftHand

----------------------------------------------------------------------------
(* Properties of the keypoints of PoseDetector *)

\* a detect call that ran the network on its frame
InferenceStep ==
    /\ detection' # detection
    /\ detection'.op = "PoseDetector::detect"
    /\ poseDetector.m_initialized /\ poseDetector.hasModel
    /\ env.HAS_ONNXRUNTIME /\ detection'.inferenceOk
    /\ ~FrameEmpty(detection'.frame)

\* C32: a keypoint is valid exactly when its confidence is at least the
\* threshold, a confidence equal to the threshold included; detect returns a
\* person exactly when the left wrist, the right wrist or the shoulder centre
\* (both shoulders) is valid in this sense, with the wrists so marked.
C32_ValidFromThreshold ==
    [][ InferenceStep =>
          LET out == detection'.frame.output
              Valid(kp) == kp.conf >= m_confidenceThreshold
              emitted ==
                  \/ Valid(out.leftWrist) \/ Valid(out.rightWrist)
                  \/ (Valid(out.leftShoulder) /\ Valid(out.rightShoulder))
          IN  /\ (detection'.persons # << >>) <=> emitted
              /\ \A i \in DOMAIN detection'.persons :
                    /\ detection'.persons[i].leftHand.valid <=> Valid(out.leftWrist)
                    /\ detection'.persons[i].rightHand.valid <=> Valid(out.rightWrist)
       ]_vars

----------------------------------------------------------------------------
(* Properties of the states of a game *)

\* the transitions of the state table
TableTransitions ==
    { << "Calibrating", "Playing" >>, << "Playing", "GameOver" >>,
      << "Playing", "Paused" >>, << "Paused", "Playing" >>,
      << "GameOver", "Calibrating" >> }

\* C37: every change of m_state made by update, startGame, togglePause or
\* reset is one of the five transitions of the state table, and the state is
\* never Countdown.
C37_OnlyTableTransitions ==
    [][ /\ m_state' # "Countdown"
        /\ m_state' # m_state => << m_state, m_state' >> \in TableTransitions ]_vars

\* the state is never Countdown
C37_NoCountdown == m_state # "Countdown"

\* game_time + remaining_time is the duration of a game
TimesAddUp == m_gameTime + m_remainingTime = GAME_DURATION

\* C38: while the state is Playing or Paused, game_time + remaining_time is
\* 45 s, game_time is below 45 s and the phase Finale goes with a game_time
\* in [30 s, 45 s); the sum stops being 45 s only in an update that sets
\* remaining_time to 0 and enters GameOver.
C38_TimesAddUp ==
    /\ [](m_state \in {"Playing", "Paused"} =>
             /\ TimesAddUp
             /\ m_gameTime < Sec(45)
             /\ m_phase = "Finale" => (m_gameTime >= Sec(30) /\ m_gameTime < Sec(45)))
    /\ [][ (TimesAddUp /\ ~TimesAddUp') =>
              /\ m_state = "Playing" /\ m_state' = "GameOver"
              /\ call'.op = "update"
              /\ m_remainingTime' = 0 ]_vars

\* a game paused in its Finale, 30 s played and 15 s left
C38_Witness ==
    /\ m_state = "Paused" /\ m_phase = "Finale"
    /\ m_gameTime = Sec(30) /\ m_remainingTime = Sec(15)

\* a game ended by a tick that went past the 45 s
C38_WitnessClamped ==
    /\ m_state = "GameOver" /\ m_remainingTime = 0 /\ m_gameTime > Sec(45)

----------------------------------------------------------------------------
(* Properties of the captures of a game *)

\* the sum of the configured scores of a list of captured items
RECURSIVE SumConfiguredScore(_)
SumConfiguredScore(captured) ==
    IF captured = << >> THEN 0
    ELSE ITEM_CONFIGS[Head(captured).type].score + SumConfiguredScore(Tail(captured))

\* C39: an item is captured at most once in its lifetime: the items that gave
\* a CollisionResult in the latest update were left inactive by
\* detectCollisions and are no longer in the list, no captured item is in the
\* list, no item was captured twice, every item in the list is active, and the
\* scores of the game add up to the configured scores of the captured items.
C39_CapturedOnce ==
    /\ \A j \in DOMAIN collisions :
          /\ \E i \in DOMAIN collidedItems :
                 /\ collidedItems[i].id = collisions[j].itemId
                 /\ ~collidedItems[i].active
          /\ \A i \in DOMAIN m_fallingItems :
                 m_fallingItems[i].id # collisions[j].itemId
    /\ \A c \in DOMAIN capturedItems :
          /\ \A i \in DOMAIN m_fallingItems :
                 m_fallingItems[i].id # capturedItems[c].id
          /\ \A d \in DOMAIN capturedItems :
                 capturedItems[c].id = capturedItems[d].id => c = d
    /\ \A i \in DOMAIN m_fallingItems : m_fallingItems[i].active
    /\ m_p1Score + m_p2Score = SumConfiguredScore(capturedItems)

\* two items have been captured in a game, the second in the latest update
C39_Witness ==
    /\ m_state = "Playing" /\ call.op = "update"
    /\ Len(capturedItems) = 2
    /\ Len(collisions) = 1
    /\ m_p1Score + m_p2Score > 0

(***************************************************************************)
(* The ParticleSystem on its own: initialize, the four effect presets,     *)
(* update and clear in any order.                                          *)
(***************************************************************************)

\* the capacity given to initialize
MaxParticles == 4

\* the values of m_unitDist, in halves, for the size and the life of a
\* particle: both the least or both the middle of their ranges
DrawSet == {[size |-> 0, life |-> 0], [size |-> 1, life |-> 1]}

\* the draws of one call, one for every slot of the pool: every particle of
\* the call draws the same values, or the lives alternate from slot to slot
DrawSeqs ==
    {[p \in 1..MaxParticles |-> d] : d \in DrawSet}
        \cup {[p \in 1..MaxParticles |-> [size |-> 0, life |-> p % 2]]}

\* the frame times given to update, in milliseconds
ParticleDtSet == {0, 500}

\* the combo counts given to createComboEffect
ComboCountSet == {5}

\* the scores given to createScorePopup
PopupScoreSet == {5, -30}

\* the variables that no call of ParticleSystem or Renderer changes
nonEffectVars == << gameVars, camera, capture, consumer, heap, camLog, appVars >>

ParticleInitialize ==
    /\ \E maxParticles \in {MaxParticles} :
           /\ particleSystem' = ParticleSystem_initialize(particleSystem, maxParticles)
           /\ effect' = [op |-> "initialize", deltaTime |-> 0, count |-> maxParticles]
    /\ UNCHANGED << renderer, nonEffectVars >>

CreateCaptureExplosion ==
    /\ \E isPerfect \in BOOLEAN, draws \in DrawSeqs :
           /\ particleSystem' = createCaptureExplosion(particleSystem, isPerfect, draws)
           /\ effect' = [op |-> "createCaptureExplosion", deltaTime |-> 0,
                         count |-> IF isPerfect THEN 30 + 15 ELSE 20]
    /\ UNCHANGED << renderer, nonEffectVars >>

CreateBombExplosion ==
    /\ \E draws \in DrawSeqs :
           /\ particleSystem' = createBombExplosion(particleSystem, draws)
           /\ effect' = [op |-> "createBombExplosion", deltaTime |-> 0,
                         count |-> 40 + 30 + 15]
    /\ UNCHANGED << renderer, nonEffectVars >>

CreateComboEffect ==
    /\ \E comboCount \in ComboCountSet, draws \in DrawSeqs :
           /\ particleSystem' = createComboEffect(particleSystem, comboCount, draws)
           /\ effect' = [op |-> "createComboEffect", deltaTime |-> 0,
                         count |-> IF 10 + comboCount * 3 < 50
                                   THEN 10 + comboCount * 3 ELSE 50]
    /\ UNCHANGED << renderer, nonEffectVars >>

CreateScorePopup ==
    /\ \E score \in PopupScoreSet, draws \in DrawSeqs :
           /\ particleSystem' = createScorePopup(particleSystem, score, draws)
           /\ effect' = [op |-> "createScorePopup", deltaTime |-> 0,
                         count |-> (IF score < 0 THEN -score ELSE score) \div 10 + 3]
    /\ UNCHANGED << renderer, nonEffectVars >>

ParticleUpdate(deltaTime) ==
    /\ particleSystem' = ParticleSystem_update(particleSystem, deltaTime)
    /\ effect' = [op |-> "update", deltaTime |-> deltaTime, count |-> 0]
    /\ UNCHANGED << renderer, nonEffectVars >>

ParticleClear ==
    /\ particleSystem' = ParticleSystem_clear(particleSystem)
    /\ effect' = [op |-> "clear", deltaTime |-> 0, count |-> 0]
    /\ UNCHANGED << renderer, nonEffectVars >>

\* an update that lets time pass
ParticleTick == \E deltaTime \in ParticleDtSet \ {0} : ParticleUpdate(deltaTime)

NextParticles ==
    \/ ParticleInitialize
    \/ CreateCaptureExplosion
    \/ CreateBombExplosion
    \/ CreateComboEffect
    \/ CreateScorePopup
    \/ \E deltaTime \in ParticleDtSet : ParticleUpdate(deltaTime)
    \/ ParticleClear

SpecParticles == Init /\ [][NextParticles]_vars

\* the caller updates the particles every frame, and frames take time
SpecParticlesLive == SpecParticles /\ WF_vars(ParticleTick)

(***************************************************************************)
(* The effects of the Renderer: triggerScreenShake, triggerFlash and       *)
(* updateAnimations in any order.  The score popups of updateAnimations    *)
(* (m_currentTime, m_scorePopups) are not part of the state.               *)
(***************************************************************************)

\* the shakes given to triggerScreenShake: the default (Renderer.h line 80),
\* a longer one, and one of no duration
ShakeSet == { [intensity |-> ShakePx(15), duration |-> 300],
              [intensity |-> ShakePx(20), duration |-> 1000],
              [intensity |-> ShakePx(15), duration |-> 0] }

\* the intensities given to triggerFlash: the default (Renderer.h line 83)
\* and a full flash
FlashSet == {600, 1000}

\* the frame times given to updateAnimations, in milliseconds
AnimationDtSet == {0, 100, 250}

\* the values of dist(s_rng), in halves, of updateScreenShake
DistSet == {-2, -1, 0, 1}

\* Renderer::initialize (lines 88-89) makes the particle system
InitRenderer ==
    /\ EngineConstructed
    /\ CameraIdle
    /\ app = AppConstructed
    /\ poseDetector = PoseDetectorConstructed
    /\ gestureDetector = GestureDetectorConstructed
    /\ env = NoModels
    /\ detection = NoDetection
    /\ particleSystem = ParticleSystem_initialize(ParticleSystemConstructed,
                                                  MaxParticles)
    /\ renderer = RendererConstructed
    /\ effect = NoEffect

TriggerScreenShake ==
    /\ \E shake \in ShakeSet :
           /\ renderer' = triggerScreenShake(renderer, shake.intensity,
                                             shake.duration)
           /\ effect' = [op |-> "triggerScreenShake", deltaTime |-> 0, count |-> 0]
    /\ UNCHANGED << particleSystem, nonEffectVars >>

TriggerFlash ==
    /\ \E intensity \in FlashSet :
           /\ renderer' = triggerFlash(renderer, intensity)
           /\ effect' = [op |-> "triggerFlash", deltaTime |-> 0, count |-> 0]
    /\ UNCHANGED << particleSystem, nonEffectVars >>

\* Renderer::updateAnimations (lines 697-706)
UpdateAnimations(deltaTime) ==
    /\ \E distX \in DistSet, distY \in DistSet :
           renderer' = updateFlash(updateScreenShake(renderer, deltaTime,
                                                     distX, distY),
                                   deltaTime)
    /\ particleSystem' = ParticleSystem_update(particleSystem, deltaTime)
    /\ effect' = [op |-> "updateAnimations", deltaTime |-> deltaTime, count |-> 0]
    /\ UNCHANGED nonEffectVars

\* a frame that lets time pass
AnimationTick == \E deltaTime \in AnimationDtSet \ {0} : UpdateAnimations(deltaTime)

NextRenderer ==
    \/ TriggerScreenShake
    \/ TriggerFlash
    \/ \E deltaTime \in AnimationDtSet : UpdateAnimations(deltaTime)

SpecRenderer == InitRenderer /\ [][NextRenderer]_vars

\* the caller updates the animations every frame, and frames take time
SpecRendererLive == SpecRenderer /\ WF_vars(AnimationTick)

(***************************************************************************)
(* Properties of the pool of ParticleSystem                                *)
(***************************************************************************)

\* the slots of a pool that hold an active particle
ActiveSlots(ps) == {i \in DOMAIN ps.m_particles : ps.m_particles[i].active}

\* the slots of a pool that acquireParticle can give out
FreeSlots(ps) == DOMAIN ps.m_particles \ ActiveSlots(ps)

\* a step of one of the four effect presets
PresetStep ==
    effect'.op \in {"createCaptureExplosion", "createBombExplosion",
                    "createComboEffect", "createScorePopup"}

\* C33: the active particles never outnumber the capacity of the pool; the
\* particles that a preset emits take the first inactive slots in index
\* order, as many as the call asks for or as there are inactive slots,
\* whichever is less; every other slot, active or not, stays as it was, so
\* a call that finds no inactive slot changes nothing.
C33_FirstFreeSlotOrDrop ==
    [][ LET born == FreeSlots(particleSystem) \cap ActiveSlots(particleSystem')
        IN  /\ Cardinality(ActiveSlots(particleSystem'))
                   <= Len(particleSystem'.m_particles)
            /\ Len(particleSystem'.m_particles) <= MaxParticles
            /\ PresetStep =>
                 /\ DOMAIN particleSystem'.m_particles
                        = DOMAIN particleSystem.m_particles
                 /\ \A i \in DOMAIN particleSystem.m_particles \ born :
                        particleSystem'.m_particles[i]
                            = particleSystem.m_particles[i]
                 /\ \A i \in born : \A j \in FreeSlots(particleSystem) :
                        j < i => j \in born
                 /\ Cardinality(born)
                        = IF effect'.count < Cardinality(FreeSlots(particleSystem))
                          THEN effect'.count
                          ELSE Cardinality(FreeSlots(particleSystem))
                 /\ \A i \in born :
                        /\ particleSystem'.m_particles[i].life
                               = particleSystem'.m_particles[i].maxLife
                        /\ particleSystem'.m_particles[i].maxLife > 0
      ]_vars

\* a score popup of three particles has filled slots 1 to 3 of an empty pool
\* and left slot 4 free
C33_Witness ==
    /\ effect.op = "createScorePopup"
    /\ effect.count = 3
    /\ ActiveSlots(particleSystem) = {1, 2, 3}
    /\ FreeSlots(particleSystem) = {4}

\* a combo effect of 25 particles has found the pool taken, at least in
\* part, by the particles of other presets: they are still there
C33_WitnessDropped ==
    /\ effect.op = "createComboEffect"
    /\ particleSystem.m_particles # << >>
    /\ FreeSlots(particleSystem) = {}
    /\ \E i \in ActiveSlots(particleSystem) :
           particleSystem.m_particles[i].maxLife \notin {500, 750}

(***************************************************************************)
(* Properties of the life of a particle                                    *)
(***************************************************************************)

\* a step of ParticleSystem::update
ParticleUpdateStep == effect'.op = "update"

\* C34: update(dt) takes dt / maxLife off the life of every active particle
\* (dt milliseconds off a life counted in milliseconds), retires the
\* particle when the life is no longer positive, and leaves inactive slots
\* alone; the size of an active particle is never below one pixel; and
\* while updates with dt > 0 keep coming, every active particle is
\* eventually retired, which frees its slot for acquireParticle.
C34_ParticlesRetire ==
    /\ [](\A i \in ActiveSlots(particleSystem) :
              particleSystem.m_particles[i].size >= SizePx(1))
    /\ [][ ParticleUpdateStep =>
             \A i \in DOMAIN particleSystem.m_particles :
                 LET old == particleSystem.m_particles[i]
                     new == particleSystem'.m_particles[i]
                 IN  IF old.active
                     THEN /\ new.life = old.life - effect'.deltaTime
                          /\ new.maxLife = old.maxLife
                          /\ new.active = (new.life > 0)
                     ELSE new = old
       ]_vars
    /\ \A i \in 1..MaxParticles :
           (i \in ActiveSlots(particleSystem))
               ~> (i \in FreeSlots(particleSystem))

\* an update of half a second has retired one particle and left another
\* one alive, smaller than it was emitted
C34_Witness ==
    /\ effect.op = "update"
    /\ effect.deltaTime > 0
    /\ \E i \in FreeSlots(particleSystem) :
           /\ particleSystem.m_particles[i].maxLife > 0
           /\ particleSystem.m_particles[i].life <= 0
    /\ \E i \in ActiveSlots(particleSystem) :
           /\ particleSystem.m_particles[i].life
                  < particleSystem.m_particles[i].maxLife
           /\ particleSystem.m_particles[i].size >= SizePx(1)

\* a preset has put a new particle into the slot of a retired one, beside a
\* particle that is older
C34_WitnessReused ==
    /\ effect.op = "createCaptureExplosion"
    /\ \E i, j \in ActiveSlots(particleSystem) :
           /\ particleSystem.m_particles[i].life
                  = particleSystem.m_particles[i].maxLife
           /\ particleSystem.m_particles[j].life
                  < particleSystem.m_particles[j].maxLife

(***************************************************************************)
(* Properties of the count of active particles                             *)
(***************************************************************************)

\* C40: getActiveCount() is the number of particles whose active flag is
\* set, after every initialize, preset, update and clear.
C40_CountIsActive ==
    getActiveCount(particleSystem) = Cardinality(ActiveSlots(particleSystem))

\* after initialize, update and clear the count is right
C40_CountAfterUpdate ==
    effect.op \in {"initialize", "update", "clear"}
        => getActiveCount(particleSystem)
               = Cardinality(ActiveSlots(particleSystem))

(***************************************************************************)
(* Properties of the screen shake                                          *)
(***************************************************************************)

\* a step of Renderer::updateAnimations
AnimationStep == effect'.op = "updateAnimations"

Abs(n) == IF n < 0 THEN -n ELSE n

\* C35: an animation update that leaves the elapsed time of a shake below
\* its duration sets both offsets within the current intensity, which is
\* intensity * (1 - elapsed / duration), no more than at the update before
\* and less when time has passed; an update that brings the elapsed time to
\* the duration, and every update after it until the next trigger, sets
\* both offsets to exactly 0.
C35_ShakeFadesToZero ==
    [][ AnimationStep =>
          LET intensity == renderer.m_shakeIntensity
              duration == renderer.m_shakeDuration
              before == renderer.m_shakeTime
              elapsed == renderer.m_shakeTime + effect'.deltaTime
          IN  IF duration > 0 /\ elapsed < duration
              THEN /\ renderer'.m_shakeTime = elapsed
                   /\ renderer'.m_shakeDuration = duration
                   /\ renderer'.m_shakeIntensity = intensity
                   /\ Abs(renderer'.m_shakeOffsetX) * duration
                          <= intensity * (duration - elapsed)
                   /\ Abs(renderer'.m_shakeOffsetY) * duration
                          <= intensity * (duration - elapsed)
                   /\ intensity * (duration - elapsed)
                          <= intensity * (duration - before)
                   /\ effect'.deltaTime > 0 =>
                          intensity * (duration - elapsed)
                              < intensity * (duration - before)
              ELSE /\ renderer'.m_shakeOffsetX = 0
                   /\ renderer'.m_shakeOffsetY = 0
                   /\ renderer'.m_shakeDuration = 0
      ]_vars

\* a third of the default shake is over: the offset is the whole of the
\* current intensity, 10 of the 15 pixels
C35_Witness ==
    /\ effect.op = "updateAnimations"
    /\ renderer.m_shakeIntensity = ShakePx(15)
    /\ renderer.m_shakeDuration = 300
    /\ renderer.m_shakeTime = 100
    /\ renderer.m_shakeOffsetX = -ShakePx(10)
    /\ renderer.m_shakeOffsetY = ShakePx(5)

\* the default shake is over: 350 ms have passed, the offsets are 0
C35_WitnessOver ==
    /\ effect.op = "updateAnimations"
    /\ renderer.m_shakeIntensity = ShakePx(15)
    /\ renderer.m_shakeTime = 350
    /\ renderer.m_shakeDuration = 0
    /\ renderer.m_shakeOffsetX = 0
    /\ renderer.m_shakeOffsetY = 0

(***************************************************************************)
(* Properties of the flash                                                 *)
(***************************************************************************)

C36_WitnessLeft ==
    /\ effect.op = "updateAnimations"
    /\ effect.deltaTime = 250
    /\ renderer.m_flashIntensity = 250


====
